---- MODULE Spec2Model ----
(***************************************************************************)
(* Model of the action-terminal fanout fabric (jaknapp/action-ai):         *)
(*   - ActionServer session tables and the execution observer              *)
(*     (action/app/action_server.py),                                      *)
(*   - TopicManager / TopicSubscriber / stream_endpoint                    *)
(*     (action/app/topic_manager.py).                                      *)
(* All cooperative code runs on one asyncio event loop: an action of the   *)
(* model is the code a coroutine runs from one resumption to its next      *)
(* await.  Python containers are shared by reference: a coroutine that     *)
(* holds a list or set taken from a table sees in-place mutations          *)
(* (append, add, discard) but not a re-assignment of the table entry.      *)
(***************************************************************************)
EXTENDS Integers, Sequences, FiniteSets, TLC

\* ------------------------------------------------------------------ bounds
MaxSockets == 2      \* WebSocket connections ever opened
MaxExec == 2         \* executions ever created by POST /execute
MaxResp == 2         \* ExecutionResponses the engine ever emits
MaxTopicOps == 3     \* add_topic / remove_topic requests ever made
\* the same, for the specification of session deletion
DelMaxSockets == 1
DelMaxExec == 1
DelMaxResp == 2
DelMaxTopicOps == 1
\* for the specification of the session tables
ConMaxSockets == 2
ConMaxExec == 1
ConMaxResp == 1
FailMaxTopicOps == 1
SesMaxSockets == 1
SesMaxExec == 2
StMaxSockets == 2
StMaxExec == 1
StMaxTopicOps == 1
TblMaxSockets == 2
TblMaxExec == 3
TblMaxTopicOps == 2
TopMaxOps == 4
\* for the specification of the topic manager
MaxStreams == 2      \* GET /topics/{t}/stream requests ever made
MaxPub == 2          \* TopicManager.publish calls ever made
\* for the specifications of the terminal
MaxCalls == 3        \* Terminal method calls ever made
MaxCommands == 2     \* commands the shell ever runs in the foreground
MaxInput == 2        \* bytes passed to one send_bytes
MaxText == 1         \* characters passed to one send_text
InputCap == 2        \* bytes the PTY input queue holds
MaxOutput == 2       \* bytes the shell ever writes
MaxTokens == 2       \* READY tokens the shell ever writes
QueueSize == 1       \* maxsize of the reader-to-aggregator queue
MaxFd == 6           \* descriptor numbers the server process can use
MaxPid == 2          \* process ids the kernel hands out
\* for the specification of the webapp's messages
MaxMessages == 3     \* messages ever created
MaxClock == 2        \* last instant of the database clock
MaxSessionTopics == 3 \* rows table session_topics holds at a time

Sessions == {"s1", "s2"}
Topics == {"t1", "t2", "t3"}
Sockets == 1..MaxSockets
Resps == 1..MaxResp
Streams == 1..MaxStreams
StreamTopics == {"t1", "t2"}
DelTopics == {"t1"}
NoSession == "none"
NoTopic == "none"
\* frame kinds on a WebSocket: a snapshot is 0, an ExecutionResponse is its
\* emission number
SnapshotFrame == 0
\* items of a subscriber queue: the closed-sentinel is 0, a published message
\* is the number of its publish call
ClosedSentinel == 0

VARIABLES
    \* ---- ActionServer
    session_id_web_sockets,       \* dict: session -> list of sockets
    session_id_executions_dict,   \* dict: session -> list of execution ids
    execution_id_session_id_dict, \* dict: execution id -> session
    session_id_topics,            \* dict: session -> set of topics
    nextExec,                     \* next execution id the Service allocates
    nextResp,                     \* next emission number of the engine
    topicOps,                     \* add_topic / remove_topic requests so far
    ws,                           \* per socket: handler position and link state
    cb,                           \* per emission: the observer callback's frame
    \* ---- what a specification observes of a run, and its request budget
    env,
    wsFrames, \* per socket: frames written, in order
    published,                    \* publish calls made by the observer
    deletedAt,                    \* per execution: the tables of its session
                                  \* when delete_session removed it
    late,                         \* sends and publishes of callbacks that
                                  \* began after their execution was deleted
    service_calls,                \* the ActionService calls of the latest
                                  \* POST /execute, in call order
    reply,                        \* the last response of GET /sessions or to
                                  \* a malformed request
    st,                           \* the frame of the POST /state handler
    \* ---- TopicManager
    topic_subscribers,            \* dict: topic -> set of subscribers
    queue,                        \* per subscriber: its asyncio.Queue
    closed,                       \* per subscriber: its closed flag
    stream,                       \* per stream request: handler position
    ready,                        \* event loop: delivery tasks not yet run
    nextPub,                      \* number of the next publish call
    pubs,                         \* per publish call: topic, subscribers then
    dequeued,                     \* per subscriber: items the pump took
    \* ---- Terminal, its child process and the kernel objects they share
    terminal,                     \* what start_terminal gave: the handle and
                                  \* the state of its two descriptors
    child,                        \* the forked child: the shell process
    tty,                          \* the PTY pair: both queues, who holds the
                                  \* slave, the command in the foreground
    pipe,                         \* the sentinel pipe: READY tokens unread,
                                  \* who holds its write end
    caller,                       \* the Terminal method running on the
                                  \* event loop's thread
    reader,                       \* the reader thread: read_pty_into_queue
    output_queue,                 \* the TerminalOutput events pushed
    forwarded,                    \* events aggregated so far and the frames
                                  \* the observer made of them
    loop,                         \* the event loop's side of the bridge: the
                                  \* puts it has run, the events taken
    proc,                         \* the server process: its Terminal objects,
                                  \* descriptor numbers and child pids
    \* ---- webapp
    messages                      \* the webapp's database: tables messages,
                                  \* sessions and session_topics, its clock

hostVars == <<terminal, child, tty, pipe, caller, reader, output_queue,
              forwarded, loop, proc, messages>>
envVars == <<env, hostVars>>
tables == <<session_id_web_sockets, session_id_executions_dict,
            execution_id_session_id_dict, session_id_topics>>
topicVars == <<topic_subscribers, queue, closed, stream, ready, nextPub, pubs,
               dequeued>>
requestVars == <<service_calls, reply, st>>
history == <<envVars, topicVars, wsFrames, published, deletedAt, late,
             requestVars>>
serverVars == <<tables, nextExec, nextResp, topicOps, ws, cb, envVars,
                wsFrames,
                published, deletedAt, late, requestVars>>
serverSide == <<tables, nextExec, nextResp, topicOps, ws, cb, env, wsFrames,
                published, deletedAt, late, requestVars, topicVars>>
appVars == <<serverSide, loop, proc>>
bridgeVars == <<serverSide, proc>>
procVars == <<serverSide, loop>>
vars == <<serverVars, topicVars>>  \* serverVars holds hostVars

Observes(kind) == kind \in env.observe

\* ------------------------------------------------------ dict helpers
Put(f, k, v) == [x \in (DOMAIN f) \cup {k} |-> IF x = k THEN v ELSE f[x]]
\* A pop that clears the dict.
PopAll(f, k) == [x \in {} |-> 0]
Pop(f, k) == [x \in (DOMAIN f) \ {k} |-> f[x]]
DictGet(f, k, d) == IF k \in DOMAIN f THEN f[k] ELSE d
EmptyDict == [x \in {} |-> 0]
Range(q) == {q[i] : i \in 1..Len(q)}
RECURSIVE Filter(_, _)
Filter(q, keep) ==
    IF q = <<>> THEN <<>>
    ELSE IF Head(q) \in keep THEN <<Head(q)>> \o Filter(Tail(q), keep)
    ELSE Filter(Tail(q), keep)

IdleCb == [pc |-> "new", exec |-> 0, session |-> NoSession,
           wsAlias |-> FALSE, wsOwn |-> <<>>, idx |-> 0, active |-> <<>>,
           topAlias |-> FALSE, topOwn |-> {}, topLen |-> 0,
           topVisited |-> {}, topMust |-> {}, stable |-> {},
           afterDelete |-> FALSE, failed |-> {}]
IdleWs == [pc |-> "idle", session |-> NoSession, broken |-> FALSE]

IdleStream == [pc |-> "idle", topic |-> NoTopic, gone |-> FALSE]
IdleSt == [pc |-> "idle"]
NoReply == [route |-> "none", status |-> 0]

\* Before start_terminal: no handle, no child, no PTY and no pipe.
NoTerminal == [state |-> "none", master_fd |-> "none",
               sentinel_read_fd |-> "none", calls |-> 0]
NoChild == [state |-> "none", sigterm |-> "exits", pending |-> {},
            status |-> 0]
NoTty == [out |-> <<>>, input |-> <<>>, slave |-> {}, fg |-> 0,
          commands |-> 0, wrote |-> 0]
NoPipe == [tokens |-> 0, writers |-> {}, wrote |-> 0]
NoCall == [op |-> "none", pc |-> "returned"]
IdleReader == [pc |-> "idle"]
NothingForwarded == [taken |-> 0, frames |-> <<>>]
\* The Terminal objects the server holds, the numbers of its descriptor
\* table counted from the lowest one free at the start, and the kernel's
\* process ids.
Handles == {"A", "B"}
Fds == 1..MaxFd
Pids == 1..MaxPid
NoHandle == [state |-> "none", pid |-> 0, master_fd |-> 0,
             sentinel_read_fd |-> 0]
FreeFd == [of |-> "none", end |-> "none"]
NoProc == [handle |-> [T \in Handles |-> NoHandle],
           fds |-> [n \in Fds |-> FreeFd],
           pids |-> [p \in Pids |-> "none"],
           touched |-> {}]
\* The loop has run no callback and the aggregator has taken no event.
NoLoop == [put |-> 0, blocked |-> FALSE, got |-> 0]
NoMessages == [rows |-> <<>>, now |-> 0, sessions |-> {},
               session_topics |-> <<>>]

\* The server as constructed, run with the requests of environment e.
\* The frames a run keeps: none where the run opens no socket, or where the
\* engine emits no response.
Opened(budget, S) == IF budget = 0 THEN {} ELSE S

Init(e) ==
    /\ env = e
    /\ session_id_web_sockets = EmptyDict
    /\ session_id_executions_dict = EmptyDict
    /\ execution_id_session_id_dict = EmptyDict
    /\ session_id_topics = EmptyDict
    /\ nextExec = 1
    /\ nextResp = 1
    /\ topicOps = 0
    /\ ws = [w \in Opened(e.sockets, Sockets) |-> IdleWs]
    /\ cb = [r \in Opened(e.resp, Resps) |-> IdleCb]
    /\ wsFrames = [w \in Opened(e.sockets, Sockets) |-> <<>>]
    /\ published = {}
    /\ deletedAt = EmptyDict
    /\ late = {}
    /\ service_calls = <<>>
    /\ reply = NoReply
    /\ st = IdleSt
    /\ topic_subscribers = EmptyDict
    /\ queue = [k \in Streams |-> <<>>]
    /\ closed = [k \in Streams |-> FALSE]
    /\ stream = [k \in Streams |-> IdleStream]
    /\ ready = <<>>
    /\ nextPub = 1
    /\ pubs = EmptyDict
    /\ dequeued = [k \in Streams |-> <<>>]
    /\ terminal = NoTerminal
    /\ child = NoChild
    /\ tty = NoTty
    /\ pipe = NoPipe
    /\ caller = NoCall
    /\ reader = IdleReader
    /\ output_queue = <<>>
    /\ forwarded = NothingForwarded
    /\ loop = NoLoop
    /\ proc = NoProc
    /\ messages = NoMessages

\* A callback suspended in the WebSocket loop that iterates the very list
\* object the table holds for session s keeps the old object when the table
\* entry is re-assigned or popped.
DetachWs(c, s) ==
    [r \in DOMAIN c |->
        IF c[r].pc = "ws" /\ c[r].session = s /\ c[r].wsAlias
        THEN [c[r] EXCEPT !.wsAlias = FALSE,
                          !.wsOwn = DictGet(session_id_web_sockets, s, <<>>)]
        ELSE c[r]]

\* The same for the topic set object, whose content at the time the table
\* let go of it is `content`.
DetachTopics(c, s, content) ==
    [r \in DOMAIN c |->
        IF c[r].pc = "topics" /\ c[r].session = s /\ c[r].topAlias
        THEN [c[r] EXCEPT !.topAlias = FALSE, !.topOwn = content,
                          !.topMust = @ \cap content]
        ELSE c[r]]

\* Every in-flight callback of session s records which topics stayed in the
\* session's set throughout, and a callback iterating the live set object
\* which elements stayed in that object throughout the iteration.
TopicsChanged(c, s, now) ==
    [r \in DOMAIN c |->
        IF c[r].session = s /\ c[r].pc \in {"ws", "topics"}
        THEN [c[r] EXCEPT !.stable = @ \cap now,
                          !.topMust = IF c[r].pc = "topics" /\ c[r].topAlias
                                      THEN @ \cap now ELSE @]
        ELSE c[r]]

\* ------------------------------------------------------ POST /execute
\* The Service allocates a fresh execution reference.
ServiceExecute == nextExec

\* poll_interval of a request: an int, or None when the body has none
NoPollInterval == -1
PollIntervals == {NoPollInterval, 0, 2}

\* Every execution of every session.
PollTargetsAll(tbl, s) ==
    IF DOMAIN tbl = {} THEN <<>>
    ELSE LET RECURSIVE All(_)
             All(D) == IF D = {} THEN <<>>
                       ELSE LET x == CHOOSE y \in D : TRUE
                            IN tbl[x] \o All(D \ {x})
         IN All(DOMAIN tbl)

\* The executions whose poll interval a request of session s updates.
PollTargets(tbl, s) == DictGet(tbl, s, <<>>)

\* The set_poll_interval calls of a request, in order.
SetPollCalls(refs, poll_interval) ==
    IF poll_interval = NoPollInterval THEN <<>>
    ELSE [i \in 1..Len(refs) |->
             [op |-> "set_poll_interval", ref |-> refs[i],
              arg |-> poll_interval]]

Execute(s) ==
    /\ nextExec <= env.exec
    /\ \E poll_interval \in PollIntervals :
        LET session_executions == PollTargets(session_id_executions_dict, s)
            ref == ServiceExecute
        IN
        /\ service_calls' =
              IF Observes("service")
              THEN <<>>
                   \o SetPollCalls(session_executions, poll_interval)
                   \o <<[op |-> "execute", ref |-> ref,
                         arg |-> poll_interval]>>
              ELSE service_calls
        /\ session_id_executions_dict' =
              Put(session_id_executions_dict, s,
                  Append(DictGet(session_id_executions_dict, s, <<>>), ref))
        /\ execution_id_session_id_dict' =
              Put(execution_id_session_id_dict, ref, s)
        /\ nextExec' = nextExec + 1
    /\ UNCHANGED <<session_id_web_sockets, session_id_topics, nextResp,
                   topicOps, ws, cb, envVars, topicVars, wsFrames, published,
                   deletedAt, late, reply, st>>

\* ------------------------------------------------------ GET /websocket
\* _remove_websocket: the session's list is replaced by a new list without
\* the socket; an empty list entry is deleted.
RemoveWebsocket(tbl, s, w) ==
    IF s \in DOMAIN tbl
    THEN LET rest == Filter(tbl[s], Sockets \ {w})
         IN IF rest = <<>> THEN Pop(tbl, s) ELSE Put(tbl, s, rest)
    ELSE tbl

\* A connect that sends the snapshot whether or not executions exist.
ConnectFramesAlways(execution_refs) == <<SnapshotFrame>>

\* The frames the websocket handler sends right after the append.
ConnectFrames(execution_refs) ==
    IF execution_refs # <<>> THEN <<SnapshotFrame>> ELSE <<>>

\* Handshake done: the socket is appended to the session's list (created on
\* demand); the snapshot is sent only when the session owns executions.  The
\* handler then waits in "open": for the snapshot send to return and, in its
\* receive loop, for the next message.
WsConnect(w, s) ==
    /\ w <= env.sockets
    /\ ws[w].pc = "idle"
    /\ \A v \in Sockets : v < w => ws[v].pc # "idle"
    /\ session_id_web_sockets' =
          Put(session_id_web_sockets, s,
              Append(DictGet(session_id_web_sockets, s, <<>>), w))
    /\ LET execution_refs == DictGet(session_id_executions_dict, s, <<>>) IN
          IF Observes("ws")
          THEN wsFrames' = [wsFrames EXCEPT
                               ![w] = @ \o ConnectFrames(execution_refs)]
          ELSE wsFrames' = wsFrames
    /\ ws' = [ws EXCEPT ![w].pc = "open", ![w].session = s]
    /\ UNCHANGED <<session_id_executions_dict, execution_id_session_id_dict,
                   session_id_topics, nextExec, nextResp, topicOps, cb, envVars,
                   requestVars, topicVars, published, deletedAt, late>>

\* The connection breaks: every later send on the socket raises.
WsFail(w) ==
    /\ ws[w].pc = "open"
    /\ ~ws[w].broken
    /\ ws' = [ws EXCEPT ![w].broken = TRUE]
    /\ UNCHANGED <<tables, nextExec, nextResp, topicOps, cb, history>>

\* The receive loop yields an ERROR message: _remove_websocket is called.
WsError(w) ==
    /\ ws[w].pc = "open"
    /\ ws[w].broken
    /\ session_id_web_sockets' =
          RemoveWebsocket(session_id_web_sockets, ws[w].session, w)
    /\ cb' = IF ws[w].session \in DOMAIN session_id_web_sockets
             THEN DetachWs(cb, ws[w].session) ELSE cb
    /\ ws' = [ws EXCEPT ![w].pc = "closing"]
    /\ UNCHANGED <<session_id_executions_dict, execution_id_session_id_dict,
                   session_id_topics, nextExec, nextResp, topicOps, history>>

\* The handler ends without touching the tables: the receive loop ended
\* (close frame, end of stream, or the CLOSED message that follows an
\* error), or the snapshot send raised.
WsEnd(w) ==
    /\ ws[w].pc \in {"open", "closing"}
    /\ ws' = [ws EXCEPT ![w].pc = "done", ![w].broken = TRUE]
    /\ UNCHANGED <<tables, nextExec, nextResp, topicOps, cb, history>>

\* ------------------------------------------------------ topics of a session
\* The topics table after add_topic(s, t): the defaultdict makes the set.
TopicsAfterAdd(tbl, s, t) == Put(tbl, s, DictGet(tbl, s, {}) \cup {t})

\* A remove_topic that keeps the entry of a session whose set became empty.
TopicsAfterRemoveKeepsEmpty(tbl, s, t) ==
    IF s \in DOMAIN tbl THEN Put(tbl, s, tbl[s] \ {t}) ELSE tbl

\* The topics table after remove_topic(s, t): an emptied set is deleted.
TopicsAfterRemove(tbl, s, t) ==
    IF s \in DOMAIN tbl
    THEN IF tbl[s] \ {t} = {} THEN Pop(tbl, s) ELSE Put(tbl, s, tbl[s] \ {t})
    ELSE tbl

AddTopic(s, t) ==
    /\ topicOps < env.topicOps
    /\ topicOps' = topicOps + 1
    /\ LET now == DictGet(session_id_topics, s, {}) \cup {t} IN
        /\ session_id_topics' = TopicsAfterAdd(session_id_topics, s, t)
        /\ cb' = TopicsChanged(cb, s, now)
    /\ UNCHANGED <<session_id_web_sockets, session_id_executions_dict,
                   execution_id_session_id_dict, nextExec, nextResp, ws,
                   history>>

RemoveTopic(s, t) ==
    /\ topicOps < env.topicOps
    /\ topicOps' = topicOps + 1
    /\ IF s \in DOMAIN session_id_topics
       THEN LET now == session_id_topics[s] \ {t} IN
                /\ session_id_topics' =
                      TopicsAfterRemove(session_id_topics, s, t)
                /\ cb' = IF now = {}
                         THEN DetachTopics(TopicsChanged(cb, s, now), s, now)
                         ELSE TopicsChanged(cb, s, now)
       ELSE UNCHANGED <<session_id_topics, cb>>
    /\ UNCHANGED <<session_id_web_sockets, session_id_executions_dict,
                   execution_id_session_id_dict, nextExec, nextResp, ws,
                   history>>

\* ------------------------------------------------------ DELETE /sessions/{s}
\* A delete_session that leaves the reverse map alone.
DeleteReverseKeeps(rev, s) == rev

\* A delete_session that clears the reverse map.
DeleteReverseAll(rev, s) == EmptyDict

\* The reverse map after delete_session(s).
DeleteReverse(rev, s) ==
    [e \in {x \in DOMAIN rev : rev[x] # s} |-> rev[e]]

DeleteSession(s) ==
    /\ session_id_web_sockets' = Pop(session_id_web_sockets, s)
    /\ session_id_executions_dict' = Pop(session_id_executions_dict, s)
    /\ session_id_topics' = Pop(session_id_topics, s)
    /\ execution_id_session_id_dict' =
          DeleteReverse(execution_id_session_id_dict, s)
    /\ cb' = LET topics == DictGet(session_id_topics, s, {}) IN
             TopicsChanged(DetachTopics(DetachWs(cb, s), s, topics), s, {})
    /\ deletedAt' =
          IF Observes("late")
          THEN [e \in DOMAIN deletedAt
                   \cup Range(DictGet(session_id_executions_dict, s, <<>>)) |->
                 IF e \in DOMAIN deletedAt THEN deletedAt[e]
                 ELSE [sockets |->
                          Range(DictGet(session_id_web_sockets, s, <<>>)),
                       topics |-> DictGet(session_id_topics, s, {})]]
          ELSE deletedAt
    /\ UNCHANGED <<nextExec, nextResp, topicOps, ws, envVars, requestVars,
                   topicVars,
                   wsFrames, published, late>>

\* ------------------------------------------------------ GET /sessions
\* Session ids of the requests made to the listing, in str order.
SessionOrder == <<"s1", "s2", "s3">>
AllSessions == Range(SessionOrder)

\* A query parameter: not given, text that int() rejects, or an integer.
Absent == [kind |-> "absent", val |-> 0]
NotInt == [kind |-> "text", val |-> 0]
IntText(n) == [kind |-> "int", val |-> n]
PageParams == {Absent, NotInt} \cup {IntText(n) : n \in {0, 1, 2, 3}}
PageSizeParams ==
    {Absent, NotInt} \cup {IntText(n) : n \in {0, 1, 2, 1000, 1001}}

DefaultPage == 1
DefaultPageSize == 50
MaxPageSize == 1000

\* int(request.query.get(name, default)) of a parameter int() accepts.
QueryInt(q, default) == IF q.kind = "absent" THEN default ELSE q.val

\* A listing that knows only the sessions that own executions.
SortedSessionIdsExecOnly(execs, socks) ==
    Filter(SessionOrder, DOMAIN execs)

\* sorted(set(executions keys) | set(websockets keys)).
SortedSessionIds(execs, socks) ==
    Filter(SessionOrder, DOMAIN execs \cup DOMAIN socks)

\* The Python slice q[start:end] for 0 <= start <= end.
Slice(q, start, end) ==
    SubSeq(q, start + 1, IF end < Len(q) THEN end ELSE Len(q))

BadRequest(route) == [route |-> route, status |-> 400]

\* A listing that announces a next page whenever the page is full.
SessionsReplyNextOnFullPage(execs, socks, page_q, size_q) ==
    IF page_q.kind = "text" \/ size_q.kind = "text"
    THEN BadRequest("sessions")
    ELSE LET page == QueryInt(page_q, DefaultPage)
             page_size == QueryInt(size_q, DefaultPageSize)
         IN IF page < 1 \/ page_size < 1 \/ page_size > MaxPageSize
            THEN BadRequest("sessions")
            ELSE LET session_ids == SortedSessionIds(execs, socks)
                     total == Len(session_ids)
                     start == (page - 1) * page_size
                     end == start + page_size
                 IN IF start >= total /\ total # 0
                    THEN BadRequest("sessions")
                    ELSE [route |-> "sessions", status |-> 200,
                          items |-> Slice(session_ids, start, end),
                          page |-> page, page_size |-> page_size,
                          total |-> total, has_next |-> end <= total]

SessionsReply(execs, socks, page_q, size_q) ==
    IF page_q.kind = "text" \/ size_q.kind = "text"
    THEN BadRequest("sessions")
    ELSE LET page == QueryInt(page_q, DefaultPage)
             page_size == QueryInt(size_q, DefaultPageSize)
         IN IF page < 1 \/ page_size < 1 \/ page_size > MaxPageSize
            THEN BadRequest("sessions")
            ELSE LET session_ids == SortedSessionIds(execs, socks)
                     total == Len(session_ids)
                     start == (page - 1) * page_size
                     end == start + page_size
                 IN IF start >= total /\ total # 0
                    THEN BadRequest("sessions")
                    ELSE [route |-> "sessions", status |-> 200,
                          items |-> Slice(session_ids, start, end),
                          page |-> page, page_size |-> page_size,
                          total |-> total, has_next |-> end < total]

GetSessions(page_q, size_q) ==
    /\ reply' = SessionsReply(session_id_executions_dict,
                              session_id_web_sockets, page_q, size_q)
    /\ UNCHANGED <<tables, nextExec, nextResp, topicOps, ws, cb, envVars,
                   topicVars, wsFrames, published, deletedAt, late,
                   service_calls, st>>

\* ------------------------------------------------------ malformed requests
\* What is wrong with a request, per route.
Defects ==
    [execute |-> {"invalid_json", "not_object", "wrong_shape"},
     state |-> {"invalid_json", "not_object", "sessions_not_strings",
                "sessions_falsy"},
     add_topic |-> {"invalid_json", "not_object", "no_topic_id"},
     websocket |-> {"no_session_id"}]
Routes == DOMAIN Defects

\* A handler that lets an exception out has no response of its own.
Raises(route) == [route |-> route, status |-> 0]
Ok(route) == [route |-> route, status |-> 200]

\* execute: request.json() and the request model are outside any try.
ExecuteMalformed(defect) == Raises("execute")

\* state: invalid JSON is caught; body.get needs a JSON object; a falsy
\* "sessions" is replaced by [] before its type is checked.
StateMalformed(defect) ==
    CASE defect = "invalid_json" -> BadRequest("state")
      [] defect = "not_object" -> Raises("state")
      [] defect = "sessions_not_strings" -> BadRequest("state")
      [] defect = "sessions_falsy" -> Ok("state")

\* add_topic: invalid JSON becomes {}; body.get needs a JSON object.
AddTopicMalformed(defect) ==
    CASE defect = "invalid_json" -> BadRequest("add_topic")
      [] defect = "not_object" -> Raises("add_topic")
      [] defect = "no_topic_id" -> BadRequest("add_topic")

\* websocket: the error body is returned by json_response without a status.
WebsocketMalformed(defect) == Ok("websocket")

\* _error_middleware: an exception out of a handler is answered 500.
ErrorMiddleware(response) ==
    IF response.status = 0 THEN [response EXCEPT !.status = 500]
    ELSE response

MalformedReply(route, defect) ==
    ErrorMiddleware(
        CASE route = "execute" -> ExecuteMalformed(defect)
          [] route = "state" -> StateMalformed(defect)
          [] route = "add_topic" -> AddTopicMalformed(defect)
          [] route = "websocket" -> WebsocketMalformed(defect))

\* websocket 190-205 with a client that is gone by the time the snapshot is
\* sent: the socket is in the table since line 192, send_json raises, nothing
\* in the handler catches it and _error_middleware answers.
WsSnapshotFails(w, s) ==
    /\ w <= env.sockets
    /\ ws[w].pc = "idle"
    /\ \A v \in Sockets : v < w => ws[v].pc # "idle"
    /\ DictGet(session_id_executions_dict, s, <<>>) # <<>>
    /\ session_id_web_sockets' =
          Put(session_id_web_sockets, s,
              Append(DictGet(session_id_web_sockets, s, <<>>), w))
    /\ ws' = [ws EXCEPT ![w].pc = "done", ![w].session = s,
                        ![w].broken = TRUE]
    /\ reply' = ErrorMiddleware(Raises("websocket"))
    /\ UNCHANGED <<session_id_executions_dict, execution_id_session_id_dict,
                   session_id_topics, nextExec, nextResp, topicOps, cb,
                   envVars, topicVars, wsFrames, published, deletedAt, late,
                   service_calls, st>>

\* A malformed request is answered; no table is touched.
Malformed(route, defect) ==
    /\ reply' = MalformedReply(route, defect)
    /\ UNCHANGED <<tables, nextExec, nextResp, topicOps, ws, cb, envVars,
                   topicVars, wsFrames, published, deletedAt, late,
                   service_calls, st>>

\* ------------------------------------------------------ POST /state
\* What get_execution_state answers: no process list when there is no
\* execution, else two items for every execution and, between them, an
\* item that has no pid.
NoPid == 0
ProcessItems(execution_ids, status) ==
    [i \in 1..Len(execution_ids) |->
        [pid |-> execution_ids[i], status |-> status]]
ServiceGetExecutionState(execution_ids) ==
    IF execution_ids = <<>> THEN <<>>
    ELSE ProcessItems(execution_ids, "running")
         \o <<[pid |-> NoPid, status |-> "lost"]>>
         \o ProcessItems(execution_ids, "exited")

\* str(pid) of a small non-negative pid.
Str(n) == <<"0", "1", "2", "3", "4", "5", "6", "7", "8", "9">>[n + 1]

\* _processes_state_list_to_dict: items without pid are skipped, the key is
\* str(pid), the value is the item without its pid, a later item replaces
\* an earlier one of the same pid.
RECURSIVE ProcessesInto(_, _)
ProcessesInto(result, processes_state) ==
    IF processes_state = <<>> THEN result
    ELSE LET item == Head(processes_state)
         IN IF item.pid = NoPid
            THEN ProcessesInto(result, Tail(processes_state))
            ELSE ProcessesInto(Put(result, Str(item.pid),
                                   [status |-> item.status]),
                               Tail(processes_state))
ProcessesStateListToDict(processes_state) ==
    ProcessesInto(EmptyDict, processes_state)

\* A handler that publishes to the session's topics only.
StateTopicsSessionOnly(explicit_topic, session_topics) == session_topics

\* The fresh topic set of a session's round: the request's topic_id, when
\* given, and a copy of the session's topics.
StateTopics(explicit_topic, session_topics) ==
    (IF explicit_topic # NoTopic THEN {explicit_topic} ELSE {})
        \cup session_topics

\* The handler runs from frame f to its next await (pc "ws": in send_json
\* to Head(f.socks); pc "topics": in publish) or to its end (pc "done").
\* pc "round", "wsloop", "topicsread" and "topicloop" are places in the
\* code that are passed without suspension.  pick is the topic the set
\* iterator yields next when it is in the set.  f.rounds keeps, per round,
\* what the tables held when they were read, and f.log the send_json and
\* publish calls made.
RECURSIVE StateRun(_, _)
StateRun(f, pick) ==
    CASE f.pc = "round" ->
           IF f.sessions = <<>> THEN [f EXCEPT !.pc = "done"]
           ELSE LET session_id == Head(f.sessions)
                    execution_refs ==
                        DictGet(session_id_executions_dict, session_id, <<>>)
                    state == ServiceGetExecutionState(execution_refs)
                    payload ==
                        [session_id |-> session_id,
                         execution_ids |-> execution_refs,
                         processes |-> ProcessesStateListToDict(state)]
                    copy == DictGet(session_id_web_sockets, session_id, <<>>)
                IN StateRun(
                     [f EXCEPT !.pc = "wsloop",
                               !.sessions = Tail(@),
                               !.session = session_id,
                               !.payload = payload,
                               !.socks = copy,
                               !.rounds = Append(@,
                                  [session |-> session_id,
                                   execution_ids |-> execution_refs,
                                   state |-> state,
                                   sockets |-> Range(copy),
                                   topics |-> {}])],
                     pick)
      [] f.pc = "wsloop" ->
           IF f.socks = <<>>
           THEN StateRun([f EXCEPT !.pc = "topicsread"], pick)
           ELSE [f EXCEPT !.pc = "ws",
                          !.log = Append(@,
                             [call |-> "send_json", round |-> Len(f.rounds),
                              to |-> Head(f.socks), payload |-> f.payload,
                              raised |-> FALSE])]
      [] f.pc = "topicsread" ->
           LET session_topics == DictGet(session_id_topics, f.session, {})
           IN StateRun(
                [f EXCEPT !.pc = "topicloop",
                          !.topics = StateTopics(f.topic, session_topics),
                          !.rounds[Len(f.rounds)].topics = session_topics],
                pick)
      [] f.pc = "topicloop" ->
           IF f.topics = {}
           THEN StateRun([f EXCEPT !.pc = "round"], pick)
           ELSE LET topic_id == IF pick \in f.topics THEN pick
                                ELSE CHOOSE t \in f.topics : TRUE
                IN [f EXCEPT !.pc = "topics",
                             !.topics = @ \ {topic_id},
                             !.log = Append(@,
                                [call |-> "publish", round |-> Len(f.rounds),
                                 to |-> topic_id, payload |-> f.payload,
                                 raised |-> FALSE])]

\* Bodies of POST /state: lists of session ids, with or without topic_id.
StateSessionLists == {<<>>, <<"s1">>, <<"s2", "s1">>}
StateTopicIds == {NoTopic, "t1", "t2"}

\* A lookup that indexes the defaultdict: a key that is missing is inserted
\* with the default value.
AfterGetInserting(tbl, keys, default) ==
    [x \in DOMAIN tbl \cup keys |-> IF x \in DOMAIN tbl THEN tbl[x]
                                    ELSE default]

\* A table after dict.get(key, default) was called for each of the keys: get
\* inserts nothing, in a defaultdict too.
AfterGet(tbl, keys, default) == tbl

\* The sessions whose round began between frame f and the later frame g.
RoundsBegun(f, g) ==
    {f.sessions[i] : i \in 1..(Len(f.sessions) - Len(g.sessions))}

\* What the handler leaves of the server's state when it has read the
\* tables for the sessions in read (360, 371, 381).
StateUnchanged(read) ==
    /\ session_id_executions_dict' =
          AfterGet(session_id_executions_dict, read, <<>>)
    /\ session_id_web_sockets' = AfterGet(session_id_web_sockets, read, <<>>)
    /\ session_id_topics' = AfterGet(session_id_topics, read, {})
    /\ UNCHANGED <<execution_id_session_id_dict, nextExec, nextResp,
                   topicOps, ws, cb, envVars, topicVars, wsFrames, published,
                   deletedAt, late, service_calls>>

\* The handler's frame once the body is parsed, before the first round.
NoSnapshot == [session_id |-> NoSession, execution_ids |-> <<>>,
               processes |-> EmptyDict]
StateFrame(sessions, explicit_topic) ==
    [pc |-> "round", request |-> sessions, sessions |-> sessions,
     topic |-> explicit_topic, session |-> NoSession, payload |-> NoSnapshot,
     socks |-> <<>>, topics |-> {}, rounds |-> <<>>, log |-> <<>>]

\* The request arrives with a well-formed body.
StateBegin(sessions, explicit_topic) ==
    /\ st.pc = "idle"
    /\ \E pick \in StreamTopics :
          st' = StateRun(StateFrame(sessions, explicit_topic), pick)
    /\ reply' = IF st'.pc = "done" THEN Ok("state") ELSE reply
    /\ StateUnchanged(RoundsBegun(StateFrame(sessions, explicit_topic), st'))

\* A send_json of the handler returns, or raises (caught and passed).
StateSendReturn(raised) ==
    /\ st.pc = "ws"
    /\ \E pick \in StreamTopics :
          st' = StateRun(
                  [st EXCEPT !.pc = "wsloop", !.socks = Tail(@),
                             !.log[Len(st.log)].raised = raised],
                  pick)
    /\ reply' = IF st'.pc = "done" THEN Ok("state") ELSE reply
    /\ StateUnchanged(RoundsBegun(st, st'))

\* A publish of the handler returns, or raises (caught and printed).
StatePublishReturn(raised) ==
    /\ st.pc = "topics"
    /\ \E pick \in StreamTopics :
          st' = StateRun(
                  [st EXCEPT !.pc = "topicloop",
                             !.log[Len(st.log)].raised = raised],
                  pick)
    /\ reply' = IF st'.pc = "done" THEN Ok("state") ELSE reply
    /\ StateUnchanged(RoundsBegun(st, st'))

\* ------------------------------------------------------ observer callback
\* The frame of a callback that returned (pc "done"), was dropped at the
\* session lookup ("dropped") or ended by an exception ("error"): its locals
\* are gone, and what is kept of it is what the specification observes.
Finished(rec, how) ==
    [IdleCb EXCEPT !.pc = how,
                   !.exec = IF Observes("topics") \/ Observes("late")
                            THEN rec.exec ELSE 0,
                   !.session = IF Observes("topics") THEN rec.session
                               ELSE NoSession,
                   !.stable = IF Observes("topics") THEN rec.stable ELSE {},
                   !.afterDelete = rec.afterDelete,
                   !.failed = rec.failed]

\* The list object the callback iterates: the table's own list of the
\* session, or the object it kept after the table entry was re-assigned.
WsView(rec, tbl) ==
    IF rec.wsAlias THEN DictGet(tbl, rec.session, <<>>) ELSE rec.wsOwn

\* Index of the next socket of the list whose send_json does not raise at
\* once; sockets that raise are skipped within the same turn of the loop.
NextLive(L, i) ==
    LET C == {j \in (i + 1)..Len(L) : ~ws[L[j]].broken}
    IN IF C = {} THEN Len(L) + 1
       ELSE CHOOSE j \in C : \A k \in C : j <= k

\* The table after the WebSocket loop: the session's entry is re-assigned
\* to the list of sockets whose send succeeded.
StoreActive(tbl, s, active) == Put(tbl, s, active)

\* The topic set object the callback iterates.
TopicView(rec) ==
    IF rec.topAlias THEN DictGet(session_id_topics, rec.session, {})
    ELSE rec.topOwn

LateSend(rec, w, t) ==
    IF rec.afterDelete
    THEN late \cup {[exec |-> rec.exec, socket |-> w, topic |-> t]}
    ELSE late

RecordPublish(rec, r, t) ==
    IF Observes("topics")
    THEN published \cup {[topic |-> t, resp |-> r, session |-> rec.session]}
    ELSE published

\* From a resumption inside the WebSocket loop to the next await: either the
\* frame is written to the next socket and the callback waits for that send,
\* or the loop is over, the table entry is re-assigned and the fanout to the
\* session's topics starts with the first publish call.
\* The sockets whose send_json raised, as the callback saw it.
SendFailed(rec, raised) ==
    IF Observes("fail") THEN rec.failed \cup raised ELSE rec.failed

WsLoopStep(r, before, tbl, c) ==
    LET s == before.session
        L == WsView(before, tbl)
        j == NextLive(L, before.idx)
        rec == [before EXCEPT !.failed =
                   SendFailed(before, {L[k] : k \in (before.idx + 1)..(j - 1)})]
    IN IF j <= Len(L)
       THEN /\ wsFrames' = IF Observes("ws")
                           THEN [wsFrames EXCEPT ![L[j]] = Append(@, r)]
                           ELSE wsFrames
            /\ late' = LateSend(rec, L[j], NoTopic)
            /\ cb' = [c EXCEPT ![r] = [rec EXCEPT !.pc = "ws", !.idx = j]]
            /\ session_id_web_sockets' = tbl
            /\ UNCHANGED published
       ELSE /\ wsFrames' = wsFrames
            /\ session_id_web_sockets' = StoreActive(tbl, s, rec.active)
            /\ LET others == DetachWs(c, s)
                   topics == DictGet(session_id_topics, s, {})
               IN IF topics = {}
                  THEN /\ cb' = [others EXCEPT ![r] = Finished(rec, "done")]
                       /\ UNCHANGED <<published, late>>
                  ELSE \E t \in topics :
                       /\ published' = RecordPublish(rec, r, t)
                       /\ late' = LateSend(rec, 0, t)
                       /\ cb' = [others EXCEPT ![r] =
                              [rec EXCEPT !.pc = "topics", !.wsAlias = FALSE,
                                          !.idx = 0, !.active = <<>>,
                                          !.wsOwn = <<>>, !.topAlias = TRUE,
                                          !.topLen = Cardinality(topics),
                                          !.topVisited = {t},
                                          !.topMust = topics]]

\* The engine hands ExecutionResponse number nextResp of execution e to the
\* observer.  The engine is not part of the sources: a serial engine awaits
\* the observer before it hands over the next response of the same execution
\* (executions run as separate tasks); a specification says which engine it
\* runs with.
ObserverBegin(e) ==
    /\ nextResp <= env.resp
    /\ e \in 1..(nextExec - 1)
    /\ env.serial =>
          \A o \in Resps : cb[o].pc \in {"ws", "topics"} => cb[o].exec # e
    /\ nextResp' = nextResp + 1
    /\ LET r == nextResp
           session_id == DictGet(execution_id_session_id_dict, e, NoSession)
           born == [IdleCb EXCEPT !.exec = e,
                                  !.afterDelete = e \in DOMAIN deletedAt]
       IN IF session_id = NoSession
          THEN /\ cb' = [cb EXCEPT ![r] = Finished(born, "dropped")]
               /\ UNCHANGED <<session_id_web_sockets, wsFrames, published,
                              late>>
          ELSE WsLoopStep(r,
                  [born EXCEPT !.session = session_id, !.wsAlias = TRUE,
                               !.stable =
                                  DictGet(session_id_topics, session_id, {})],
                  Put(session_id_web_sockets, session_id,
                      DictGet(session_id_web_sockets, session_id, <<>>)),
                  cb)
    /\ UNCHANGED <<session_id_executions_dict, execution_id_session_id_dict,
                   session_id_topics, nextExec, topicOps, ws, envVars,
                   requestVars, topicVars, deletedAt>>

\* A send_json returns: the socket is kept as active unless the send raised,
\* and the loop goes on.
ObserverSendReturn(r) ==
    /\ cb[r].pc = "ws"
    /\ LET w == WsView(cb[r], session_id_web_sockets)[cb[r].idx]
           rec == [cb[r] EXCEPT
                      !.active = IF ws[w].broken THEN @ ELSE Append(@, w),
                      !.failed = IF ws[w].broken
                                 THEN SendFailed(cb[r], {w}) ELSE @]
       IN WsLoopStep(r, rec, session_id_web_sockets, cb)
    /\ UNCHANGED <<session_id_executions_dict, execution_id_session_id_dict,
                   session_id_topics, nextExec, nextResp, topicOps, ws, envVars,
                   requestVars, topicVars, deletedAt>>

\* A publish returns and the iteration over the topic set goes on.  The set
\* iterator raises RuntimeError (outside the try) when the set changed size;
\* elements put into the set during the iteration may or may not be visited.
ObserverPublishReturn(r) ==
    /\ cb[r].pc = "topics"
    /\ LET T == TopicView(cb[r])
           rest == T \ cb[r].topVisited
       IN \/ /\ Cardinality(T) # cb[r].topLen
             /\ cb' = [cb EXCEPT ![r] = Finished(cb[r], "error")]
             /\ UNCHANGED <<published, late>>
          \/ /\ Cardinality(T) = cb[r].topLen
             /\ rest \cap cb[r].topMust = {}
             /\ cb' = [cb EXCEPT ![r] = Finished(cb[r], "done")]
             /\ UNCHANGED <<published, late>>
          \/ /\ Cardinality(T) = cb[r].topLen
             /\ \E t \in rest :
                  /\ published' = RecordPublish(cb[r], r, t)
                  /\ late' = LateSend(cb[r], 0, t)
                  /\ cb' = [cb EXCEPT ![r].topVisited = @ \cup {t}]
    /\ UNCHANGED <<tables, nextExec, nextResp, topicOps, ws, envVars, requestVars,
                   topicVars,
                   wsFrames, deletedAt>>

\* ------------------------------------------------------ TopicManager
\* A queue that hands out the newest item first.
QueuePutFront(q, m) == <<m>> \o q

\* asyncio.Queue() has no maxsize: put never waits and never drops.
QueuePut(q, m) == Append(q, m)

\* TopicSubscriber.publish
SubscriberPublish(q, isClosed, m) == IF isClosed THEN q ELSE QueuePut(q, m)

\* TopicSubscriber.close: sets the flag and puts a sentinel, whatever the
\* flag was.
SubscriberClose(q) == QueuePut(q, ClosedSentinel)

\* A snapshot that takes the subscribers of every topic.
SnapshotAll(reg, t) == UNION {reg[x] : x \in DOMAIN reg}

\* The subscribers publish takes under the lock.
Snapshot(reg, t) == DictGet(reg, t, {})

AddSubscription(reg, t, k) == Put(reg, t, DictGet(reg, t, {}) \cup {k})

\* A removal that keeps the entry of a topic whose last subscriber left.
RemoveSubscriptionKeepsEntry(reg, t, k) ==
    IF t \in DOMAIN reg THEN Put(reg, t, reg[t] \ {k}) ELSE reg

RemoveSubscription(reg, t, k) ==
    IF t \in DOMAIN reg
    THEN LET rest == reg[t] \ {k}
         IN IF rest = {} THEN Pop(reg, t) ELSE Put(reg, t, rest)
    ELSE reg

\* The orders in which list(set) can enumerate a set.
RECURSIVE Orders(_)
Orders(S) ==
    IF S = {} THEN {<<>>}
    ELSE UNION {{<<x>> \o o : o \in Orders(S \ {x})} : x \in S}

\* TopicManager.publish: the snapshot is taken and gather schedules one
\* delivery task per subscriber on the event loop, in list order; the
\* publisher then waits for them.
TopicPublish(t) ==
    /\ nextPub <= MaxPub
    /\ nextPub' = nextPub + 1
    /\ LET subscribers == Snapshot(topic_subscribers, t) IN
        /\ pubs' = Put(pubs, nextPub,
                       [topic |-> t,
                        registered |-> DictGet(topic_subscribers, t, {})])
        /\ \E order \in Orders(subscribers) :
              ready' = ready \o [i \in 1..Len(order) |->
                                    [pub |-> nextPub, sub |-> order[i]]]
    /\ UNCHANGED <<serverVars, topic_subscribers, queue, closed, stream,
                   dequeued>>

\* The event loop runs the oldest delivery task: TopicSubscriber.publish.
Deliver ==
    /\ ready # <<>>
    /\ LET task == Head(ready) IN
          queue' = [queue EXCEPT ![task.sub] =
                       SubscriberPublish(@, closed[task.sub], task.pub)]
    /\ ready' = Tail(ready)
    /\ UNCHANGED <<serverVars, topic_subscribers, closed, stream, nextPub,
                   pubs, dequeued>>

\* GET /topics/{t}/stream up to the await of response.prepare: the
\* subscription is added.
StreamOpen(k, t) ==
    /\ stream[k].pc = "idle"
    /\ \A j \in Streams : j < k => stream[j].pc # "idle"
    /\ topic_subscribers' = AddSubscription(topic_subscribers, t, k)
    /\ stream' = [stream EXCEPT ![k].pc = "prepare", ![k].topic = t]
    /\ UNCHANGED <<serverVars, queue, closed, ready, nextPub, pubs, dequeued>>

\* response.prepare returns: the pump and ping tasks are created and the
\* handler waits for the pump task.
StreamPrepared(k) ==
    /\ stream[k].pc = "prepare"
    /\ ~stream[k].gone
    /\ stream' = [stream EXCEPT ![k].pc = "start"]
    /\ UNCHANGED <<serverVars, topic_subscribers, queue, closed, ready,
                   nextPub, pubs, dequeued>>

\* response.prepare raises (connection reset, or the handler is cancelled
\* while it waits): the handler ends; nothing encloses that await.
StreamPrepareFails(k) ==
    /\ stream[k].pc = "prepare"
    /\ stream' = [stream EXCEPT ![k].pc = "done"]
    /\ UNCHANGED <<serverVars, topic_subscribers, queue, closed, ready,
                   nextPub, pubs, dequeued>>

\* The client goes away: writes to the response raise from now on.
ClientGone(k) ==
    /\ stream[k].pc \in {"prepare", "start", "get", "write"}
    /\ ~stream[k].gone
    /\ stream' = [stream EXCEPT ![k].gone = TRUE]
    /\ UNCHANGED <<serverVars, topic_subscribers, queue, closed, ready,
                   nextPub, pubs, dequeued>>

\* The pump task starts and waits in queue.get.
PumpStart(k) ==
    /\ stream[k].pc = "start"
    /\ stream' = [stream EXCEPT ![k].pc = "get"]
    /\ UNCHANGED <<serverVars, topic_subscribers, queue, closed, ready,
                   nextPub, pubs, dequeued>>

\* The finally clause of the pump up to the await of write_eof: close the
\* subscriber and remove the subscription.
PumpCleanup(k, q) ==
    /\ closed' = [closed EXCEPT ![k] = TRUE]
    /\ queue' = [queue EXCEPT ![k] = SubscriberClose(q)]
    /\ topic_subscribers' =
          RemoveSubscription(topic_subscribers, stream[k].topic, k)
    /\ stream' = [stream EXCEPT ![k].pc = "eof"]

\* queue.get returns an item: a sentinel ends the loop; a message is written
\* to the response, which raises when the client is gone.
PumpGet(k) ==
    /\ stream[k].pc = "get"
    /\ queue[k] # <<>>
    /\ LET message == Head(queue[k]) IN
        /\ dequeued' = [dequeued EXCEPT ![k] = Append(@, message)]
        /\ IF message = ClosedSentinel \/ stream[k].gone
           THEN PumpCleanup(k, Tail(queue[k]))
           ELSE /\ queue' = [queue EXCEPT ![k] = Tail(@)]
                /\ stream' = [stream EXCEPT ![k].pc = "write"]
                /\ UNCHANGED <<topic_subscribers, closed>>
    /\ UNCHANGED <<serverVars, ready, nextPub, pubs>>

\* response.write returns, or raises because the client went away.
PumpWriteReturn(k) ==
    /\ stream[k].pc = "write"
    /\ IF stream[k].gone
       THEN PumpCleanup(k, queue[k])
       ELSE /\ stream' = [stream EXCEPT ![k].pc = "get"]
            /\ UNCHANGED <<topic_subscribers, queue, closed>>
    /\ UNCHANGED <<serverVars, ready, nextPub, pubs, dequeued>>

\* The handler is cancelled while it waits for the pump task: the
\* cancellation reaches the pump at its await, and the pump swallows it.
PumpCancel(k) ==
    /\ stream[k].pc \in {"get", "write"}
    /\ PumpCleanup(k, queue[k])
    /\ UNCHANGED <<serverVars, ready, nextPub, pubs, dequeued>>

\* The handler is cancelled before the pump task ever ran: only the
\* handler's own finally clause runs.
HandlerCancel(k) ==
    /\ stream[k].pc = "start"
    /\ closed' = [closed EXCEPT ![k] = TRUE]
    /\ queue' = [queue EXCEPT ![k] = SubscriberClose(@)]
    /\ topic_subscribers' =
          RemoveSubscription(topic_subscribers, stream[k].topic, k)
    /\ stream' = [stream EXCEPT ![k].pc = "done"]
    /\ UNCHANGED <<serverVars, ready, nextPub, pubs, dequeued>>

\* write_eof is over and the pump task ends; the handler resumes in its
\* finally clause: close the subscriber, remove the subscription, return.
\* Nothing reads the subscriber's queue afterwards: its content is kept only
\* where the specification observes the queues of ended streams.
StreamFinish(k) ==
    /\ stream[k].pc = "eof"
    /\ closed' = [closed EXCEPT ![k] = TRUE]
    /\ queue' = [queue EXCEPT ![k] =
                    IF Observes("ended") THEN SubscriberClose(@) ELSE <<>>]
    /\ dequeued' = [dequeued EXCEPT ![k] =
                       IF Observes("ended") THEN @ ELSE <<>>]
    /\ topic_subscribers' =
          RemoveSubscription(topic_subscribers, stream[k].topic, k)
    /\ stream' = [stream EXCEPT ![k].pc = "done"]
    /\ UNCHANGED <<serverVars, ready, nextPub, pubs>>

\* ====================================================== Terminal (terminal.py)
\* One Terminal, its forked child and the kernel objects between them. A step
\* is one system call of the server process, or one thing the child's side or
\* the kernel does on its own.

\* Bytes are named by their hexadecimal value, ASCII letters by themselves.
NoOutput == <<"None">>       \* TerminalOutput.output = None
NoError == "None"            \* TerminalOutput.error = None
CtrlC == "03"
\* the process group of the shell itself: pgid = Terminal.pid
ShellGroup == 0
\* exit status of a child that could not exec
ExecFailed == 127

RECURSIVE SeqsUpTo(_, _)
SeqsUpTo(S, n) ==
    IF n = 0 THEN {<<>>}
    ELSE LET shorter == SeqsUpTo(S, n - 1)
         IN  shorter \cup {Append(q, x) : q \in shorter, x \in S}

Min(a, b) == IF a < b THEN a ELSE b
Drop(q, n) == SubSeq(q, n + 1, Len(q))
Take(q, n) == SubSeq(q, 1, n)

\* str.encode("utf-8") of a text, character by character.
EncodeChar(c) ==
    CASE c = "eacute" -> <<"C3", "A9">>
      [] c = "^C" -> <<CtrlC>>
      [] OTHER -> <<c>>
RECURSIVE Encode(_)
Encode(text) ==
    IF text = <<>> THEN <<>>
    ELSE EncodeChar(Head(text)) \o Encode(Tail(text))

\* ---- the kernel's view
ChildAlive == child.state \in {"forked", "bash"}
\* killpg(Terminal.pid, ...) finds the group while the child is a process,
\* a zombie not yet waited for included.
ShellGroupExists == child.state \in {"forked", "bash", "zombie"}
\* The group a TIOCGPGRP answer names exists while it is the shell's and the
\* shell does, or while it is the running command's.
GroupExists(pg) ==
    IF pg = ShellGroup THEN ShellGroupExists ELSE tty.fg = pg
\* select: the sentinel is readable when it holds data or every write end
\* is closed; the master when output is queued or no process holds the slave.
SentinelReadable == pipe.tokens > 0 \/ pipe.writers = {}
MasterReadable == tty.out # <<>> \/ tty.slave = {}
ReadyFds ==
    (IF SentinelReadable THEN {"sentinel_read_fd"} ELSE {})
    \cup (IF MasterReadable THEN {"master_fd"} ELSE {})

\* The child process ends: it becomes a zombie and its descriptors close.
Exited(status) ==
    /\ child' = [child EXCEPT !.state = "zombie", !.status = status,
                              !.pending = {}]
    /\ tty' = [tty EXCEPT !.slave = @ \ {"shell"}]
    /\ pipe' = [pipe EXCEPT !.writers = @ \ {"shell"}]

\* ---- start_terminal
\* pty.openpty, os.pipe and os.fork; fork either raises or gives a child,
\* and the parent returns the Terminal as soon as on_master is through.
StartTerminal(forked) ==
    /\ terminal.state = "none"
    /\ IF forked
       THEN /\ terminal' = [terminal EXCEPT !.state = "returned",
                                            !.master_fd = "open",
                                            !.sentinel_read_fd = "open"]
            /\ child' = [child EXCEPT !.state = "forked"]
            /\ tty' = [tty EXCEPT !.slave = {"shell"}]
            /\ pipe' = [pipe EXCEPT !.writers = {"shell"}]
       ELSE /\ terminal' = [terminal EXCEPT !.state = "raised"]
            /\ UNCHANGED <<child, tty, pipe>>
    /\ UNCHANGED <<appVars, caller, reader, output_queue, forwarded, messages>>

\* The child reaches os.execve and bash starts; whether this bash ends on
\* SIGTERM is its own affair.
ChildExec(sigterm) ==
    /\ child.state = "forked"
    /\ child' = [child EXCEPT !.state = "bash", !.sigterm = sigterm]
    /\ UNCHANGED <<appVars, terminal, tty, pipe, caller, reader, output_queue,
                   forwarded, messages>>

\* on_slave_inner raises (os.environ lacks USER, execve fails): the finally
\* clause of on_slave ends the child with os._exit(127).
ChildExecFails ==
    /\ child.state = "forked"
    /\ Exited(ExecFailed)
    /\ UNCHANGED <<appVars, terminal, caller, reader, output_queue, forwarded,
                   messages>>

\* ---- what the shell does
\* bash leaves by itself (exit, end of input) when it has the foreground.
ShellExits ==
    /\ child.state = "bash"
    /\ tty.fg = ShellGroup
    /\ Exited(0)
    /\ UNCHANGED <<appVars, terminal, caller, reader, output_queue, forwarded,
                   messages>>

\* The kernel acts on a signal sent to the shell's group.
DeliverSignal(sig) ==
    /\ ChildAlive
    /\ sig \in child.pending
    /\ IF sig = "SIGKILL" \/ (sig = "SIGTERM" /\ child.sigterm = "exits")
       THEN Exited(0)
       ELSE /\ child' = [child EXCEPT !.pending = @ \ {sig}]
            /\ UNCHANGED <<tty, pipe>>
    /\ UNCHANGED <<appVars, terminal, caller, reader, output_queue, forwarded,
                   messages>>

\* bash puts a command in the foreground, in a process group of its own.
CommandStarts ==
    /\ child.state = "bash"
    /\ tty.fg = ShellGroup
    /\ tty.commands < MaxCommands
    /\ tty' = [tty EXCEPT !.commands = @ + 1, !.fg = tty.commands + 1]
    /\ UNCHANGED <<appVars, terminal, child, pipe, caller, reader,
                   output_queue, forwarded, messages>>

\* The command ends; its group is gone and the shell's is in the foreground.
CommandExits ==
    /\ tty.fg # ShellGroup
    /\ tty' = [tty EXCEPT !.fg = ShellGroup]
    /\ UNCHANGED <<appVars, terminal, child, pipe, caller, reader,
                   output_queue, forwarded, messages>>

\* bash starts a background job that keeps the slave and READY_FD open and
\* is in a process group of its own.
JobStarts ==
    /\ child.state = "bash"
    /\ "job" \notin tty.slave
    /\ tty' = [tty EXCEPT !.slave = @ \cup {"job"}]
    /\ pipe' = [pipe EXCEPT !.writers = @ \cup {"job"}]
    /\ UNCHANGED <<appVars, terminal, child, caller, reader, output_queue,
                   forwarded, messages>>

\* The background job ends.
JobExits ==
    /\ "job" \in tty.slave
    /\ tty' = [tty EXCEPT !.slave = @ \ {"job"}]
    /\ pipe' = [pipe EXCEPT !.writers = @ \ {"job"}]
    /\ UNCHANGED <<appVars, terminal, child, caller, reader, output_queue,
                   forwarded, messages>>

\* The process on the slave side reads what was typed.
SlaveReads ==
    /\ tty.slave # {}
    /\ tty.input # <<>>
    /\ tty' = [tty EXCEPT !.input = <<>>]
    /\ UNCHANGED <<appVars, terminal, child, pipe, caller, reader,
                   output_queue, forwarded, messages>>

\* The shell, or what it runs, writes output.
SlaveWrites(bytes) ==
    /\ child.state = "bash"
    /\ tty.wrote + Len(bytes) <= MaxOutput
    /\ tty' = [tty EXCEPT !.out = @ \o bytes, !.wrote = @ + Len(bytes)]
    /\ UNCHANGED <<appVars, terminal, child, pipe, caller, reader,
                   output_queue, forwarded, messages>>

\* PROMPT_COMMAND: printf "READY\n" >&$READY_FD before a prompt.
PromptCommand ==
    /\ child.state = "bash"
    /\ tty.fg = ShellGroup
    /\ pipe.wrote < MaxTokens
    /\ pipe' = [pipe EXCEPT !.tokens = @ + 1, !.wrote = @ + 1]
    /\ UNCHANGED <<appVars, terminal, child, tty, caller, reader,
                   output_queue, forwarded, messages>>

\* ---- Terminal methods, called on the event loop's thread one at a time
CallerFree == caller.pc \in {"returned", "raised"}
MayCall == terminal.state = "returned" /\ CallerFree
                                       /\ terminal.calls < MaxCalls

\* What is left of the typed bytes once the line discipline has seen them:
\* an interrupt character discards what was queued before it.
RECURSIVE AfterInterrupt(_)
AfterInterrupt(q) ==
    IF q = <<>> THEN <<>>
    ELSE IF CtrlC \in {q[i] : i \in 1..Len(q)} THEN AfterInterrupt(Tail(q))
    ELSE q

\* os.write on the non-blocking master: as many bytes as the input queue
\* has room for.
Accepted(data) == Min(InputCap - Len(tty.input), Len(data))

InputBytes == {"a", CtrlC}
OutputBytes == {"a", "C3", "A9"}
Chars == {"a", "eacute"}

\* send_bytes(input_bytes) and send_text(text) up to the first os.write.
SendBegin(op, data) ==
    /\ MayCall
    /\ terminal' = [terminal EXCEPT !.calls = @ + 1]
    /\ caller' = IF data = <<>> THEN [op |-> op, pc |-> "returned",
                                     data |-> data, n |-> 0]
                 ELSE [op |-> op, pc |-> "write", data |-> data, n |-> 0]
    /\ UNCHANGED <<appVars, child, tty, pipe, reader, output_queue, forwarded,
                   messages>>

SendBytes(input_bytes) == SendBegin("send_bytes", input_bytes)
SendText(text) == SendBegin("send_text", Encode(text))

\* write_all_to_fd: one os.write of what is left of the data. It raises when
\* the descriptor is closed, when the slave side is gone and when the input
\* queue is full.
WriteAllToFd ==
    /\ caller.op \in {"send_bytes", "send_text"}
    /\ caller.pc = "write"
    /\ LET view == Drop(caller.data, caller.n)
           n == Accepted(view)
           typed == Take(view, n)
       IN  IF terminal.master_fd # "open"
           THEN caller' = [caller EXCEPT !.pc = "raised"] /\ UNCHANGED tty
           ELSE IF tty.slave = {}
           THEN caller' = [caller EXCEPT !.pc = "raised"] /\ UNCHANGED tty
           ELSE IF n = 0
           THEN caller' = [caller EXCEPT !.pc = "raised"] /\ UNCHANGED tty
           ELSE /\ caller' = [caller EXCEPT
                                !.n = @ + n,
                                !.pc = IF caller.n + n = Len(caller.data)
                                       THEN "returned" ELSE "write"]
                /\ tty' = [tty EXCEPT
                             !.input = AfterInterrupt(@ \o typed),
                             !.out = IF CtrlC \in {typed[i] : i \in 1..n}
                                     THEN <<>> ELSE @]
    /\ UNCHANGED <<appVars, terminal, child, pipe, reader, output_queue,
                   forwarded, messages>>

Signals == {"SIGINT", "SIGTERM"}

\* send_signal up to os.killpg: get_fg_pgid asks the PTY for its foreground
\* process group.
SendSignal(sig) ==
    /\ MayCall
    /\ child.state = "bash"
    /\ terminal' = [terminal EXCEPT !.calls = @ + 1]
    /\ caller' = IF terminal.master_fd # "open"
                 THEN [op |-> "send_signal", pc |-> "raised",
                       error |-> "EBADF"]
                 ELSE [op |-> "send_signal", pc |-> "killpg",
                       pg |-> tty.fg, sig |-> sig, sent |-> FALSE]
    /\ UNCHANGED <<appVars, child, tty, pipe, reader, output_queue, forwarded,
                   messages>>

\* os.killpg(pg, signal_int): ProcessLookupError when no process is in the
\* group any more.
KillpgRaises(pg) == ~GroupExists(pg)

SendSignalKillpg ==
    /\ caller.op = "send_signal"
    /\ caller.pc = "killpg"
    /\ IF KillpgRaises(caller.pg)
       THEN /\ caller' = [caller EXCEPT !.pc = "raised"]
            /\ UNCHANGED child
       ELSE /\ caller' = [caller EXCEPT !.pc = "returned", !.sent = TRUE]
            /\ child' = IF caller.pg = ShellGroup /\ ChildAlive
                        THEN [child EXCEPT !.pending = @ \cup {caller.sig}]
                        ELSE child
    /\ UNCHANGED <<appVars, terminal, tty, pipe, reader, output_queue,
                   forwarded, messages>>

\* close up to the first os.killpg: both descriptors are closed, errors
\* suppressed.
Close ==
    /\ MayCall
    /\ terminal' = [terminal EXCEPT !.calls = @ + 1, !.master_fd = "closed",
                                    !.sentinel_read_fd = "closed"]
    /\ caller' = [op |-> "close", pc |-> "sigterm"]
    /\ UNCHANGED <<appVars, child, tty, pipe, reader, output_queue, forwarded,
                   messages>>

\* os.killpg(self.pid, SIGTERM); ProcessLookupError makes close return.
CloseSigterm ==
    /\ caller.op = "close"
    /\ caller.pc = "sigterm"
    /\ IF ShellGroupExists
       THEN /\ caller' = [caller EXCEPT !.pc = "wait"]
            /\ child' = IF ChildAlive
                        THEN [child EXCEPT !.pending = @ \cup {"SIGTERM"}]
                        ELSE child
       ELSE /\ caller' = [caller EXCEPT !.pc = "returned"]
            /\ UNCHANGED child
    /\ UNCHANGED <<appVars, terminal, tty, pipe, reader, output_queue,
                   forwarded, messages>>

\* One os.waitpid(self.pid, WNOHANG) of the two-second loop that ends the
\* loop: the zombie is reaped, or there is no such child. A poll that finds
\* the child running changes nothing.
CloseWait ==
    /\ caller.op = "close"
    /\ caller.pc = "wait"
    /\ ~ChildAlive
    /\ caller' = [caller EXCEPT !.pc = "returned"]
    /\ child' = [child EXCEPT !.state =
                    IF @ = "zombie" THEN "reaped" ELSE @]
    /\ UNCHANGED <<appVars, terminal, tty, pipe, reader, output_queue,
                   forwarded, messages>>

\* The two seconds are over after a poll that found the child running;
\* os.killpg(self.pid, SIGKILL), ProcessLookupError passed over.
CloseSigkill ==
    /\ caller.op = "close"
    /\ caller.pc = "wait"
    /\ ChildAlive
    /\ caller' = [caller EXCEPT !.pc = "reap"]
    /\ child' = [child EXCEPT !.pending = @ \cup {"SIGKILL"}]
    /\ UNCHANGED <<appVars, terminal, tty, pipe, reader, output_queue,
                   forwarded, messages>>

\* One os.waitpid(self.pid, WNOHANG) of the loop after SIGKILL: a zombie is
\* reaped and the loop goes on; (0, 0), the child still running, breaks it;
\* ChildProcessError ends it.
CloseReap ==
    /\ caller.op = "close"
    /\ caller.pc = "reap"
    /\ caller' = [caller EXCEPT !.pc = IF child.state = "zombie"
                                       THEN @ ELSE "returned"]
    /\ child' = [child EXCEPT !.state =
                    IF @ = "zombie" THEN "reaped" ELSE @]
    /\ UNCHANGED <<appVars, terminal, tty, pipe, reader, output_queue,
                   forwarded, messages>>

\* ---- the reader thread (pty_reader.py) around Terminal.read_blocking
\* A TerminalOutput; sentinel_tokens is not a field of it: it records how
\* many READY tokens the read_blocking call that made the event consumed.
TerminalOutput(is_done, output, error, tokens) ==
    [is_done |-> is_done, output |-> output, error |-> error,
     stop_mark_found |-> FALSE, sentinel_tokens |-> tokens]

\* The thread is started on a Terminal that start_terminal returned.
ReaderStart ==
    /\ reader.pc = "idle"
    /\ terminal.state = "returned"
    /\ reader' = [pc |-> "poll", ready |-> {}, is_done |-> FALSE,
                  tokens |-> 0, bytes |-> <<>>]
    /\ UNCHANGED <<appVars, terminal, child, tty, pipe, caller, output_queue,
                   forwarded, messages>>

\* An except clause that reports the error and goes on reading.
ReadErrorGoesOn(error) ==
    /\ output_queue' = Append(output_queue,
                              TerminalOutput(FALSE, NoOutput, error, 0))
    /\ reader' = [reader EXCEPT !.pc = "poll"]

\* The completion marker: None in place of a TerminalOutput.
CompletionMarker == [marker |-> "None"]

\* The finally clause of read_pty_into_queue, given the events handed over:
\* its argument q.put_nowait is evaluated first, q is a name of neither the
\* function nor the module, NameError ends the thread and nothing more is
\* handed over.
ReaderFinally(events) == events

\* read_pty's except clause: one event with the error, then the generator
\* is over, the for loop of read_pty_into_queue ends and its finally clause
\* runs.
ReadError(error) ==
    /\ output_queue' =
          ReaderFinally(Append(output_queue,
                               TerminalOutput(FALSE, NoOutput, error, 0)))
    /\ reader' = [reader EXCEPT !.pc = "exited"]

\* read_blocking returns: read_pty yields the TerminalOutput, the loop pushes
\* it, and an output of b'' breaks the loop.
ReadReturns(is_done, output, tokens, bytes) ==
    /\ LET events == Append(output_queue,
                            TerminalOutput(is_done, output, NoError, tokens))
       IN  output_queue' = IF output = <<>> THEN ReaderFinally(events)
                           ELSE events
    /\ reader' = [reader EXCEPT
                    !.pc = IF output = <<>> THEN "exited" ELSE "poll",
                    !.bytes = bytes]

DescriptorsOpen ==
    terminal.master_fd = "open" /\ terminal.sentinel_read_fd = "open"

\* poll_read_fds: select.select is entered. It raises on a closed
\* descriptor, returns at once when one is readable and blocks otherwise.
PollReadFds ==
    /\ reader.pc = "poll"
    /\ IF ~DescriptorsOpen
       THEN ReadError("EBADF")
       ELSE /\ reader' = [reader EXCEPT
                            !.pc = IF ReadyFds = {} THEN "blocked"
                                   ELSE "ready",
                            !.ready = ReadyFds, !.is_done = FALSE,
                            !.tokens = 0]
            /\ UNCHANGED output_queue
    /\ UNCHANGED <<appVars, terminal, child, tty, pipe, caller, forwarded,
                   messages>>

\* A blocked select returns when one of the two files becomes readable; it
\* holds the files, so this is so whether or not the descriptors were closed
\* meanwhile.
SelectReturns ==
    /\ reader.pc = "blocked"
    /\ ReadyFds # {}
    /\ reader' = [reader EXCEPT !.pc = "ready", !.ready = ReadyFds]
    /\ UNCHANGED <<appVars, terminal, child, tty, pipe, caller, output_queue,
                   forwarded, messages>>

\* Closing a descriptor another thread's select waits on has no specified
\* effect: the select may go on waiting, or fail.
SelectFailsOnClose ==
    /\ reader.pc = "blocked"
    /\ ~DescriptorsOpen
    /\ ReadError("EBADF")
    /\ UNCHANGED <<appVars, terminal, child, tty, pipe, caller, forwarded,
                   messages>>

\* read_blocking 99-103: the sentinel is among the ready descriptors, one
\* os.read of it, is_done = True. Without the master among them the call
\* returns with output None.
ReadSentinel ==
    /\ reader.pc = "ready"
    /\ "sentinel_read_fd" \in reader.ready
    /\ IF terminal.sentinel_read_fd # "open"
       THEN ReadError("EBADF") /\ UNCHANGED pipe
       ELSE /\ pipe' = [pipe EXCEPT !.tokens = 0]
            /\ IF "master_fd" \in reader.ready
               THEN /\ reader' = [reader EXCEPT !.pc = "master",
                                                !.is_done = TRUE,
                                                !.tokens = pipe.tokens]
                    /\ UNCHANGED output_queue
               ELSE ReadReturns(TRUE, NoOutput, pipe.tokens, reader.bytes)
    /\ UNCHANGED <<appVars, terminal, child, tty, caller, forwarded,
                   messages>>

\* How a read of the master ends when nothing is queued and no process
\* holds the slave: EIO on Linux, b'' elsewhere.
Hangups == {"EIO", "empty"}

\* read_blocking 107-109: the master is among the ready descriptors, one
\* os.read(master_fd, 16384), not through read_output: whatever it raises
\* leaves read_blocking.
ReadMaster(hangup) ==
    /\ \/ reader.pc = "master"
       \/ reader.pc = "ready" /\ "sentinel_read_fd" \notin reader.ready
    /\ IF terminal.master_fd # "open"
       THEN ReadError("EBADF") /\ UNCHANGED tty
       ELSE IF tty.out # <<>>
       THEN /\ ReadReturns(reader.is_done, tty.out, reader.tokens,
                           reader.bytes \o tty.out)
            /\ tty' = [tty EXCEPT !.out = <<>>]
       ELSE IF tty.slave # {}
       THEN ReadError("EAGAIN") /\ UNCHANGED tty
       ELSE IF hangup = "EIO"
       THEN ReadError("EIO") /\ UNCHANGED tty
       ELSE /\ ReadReturns(reader.is_done, <<>>, reader.tokens, reader.bytes)
            /\ UNCHANGED tty
    /\ UNCHANGED <<appVars, terminal, child, pipe, caller, forwarded,
                   messages>>

\* ---- from the events to the WebSocket frames
\* bytes.decode("utf-8", errors="ignore"): a byte that starts or continues
\* no complete character is left out.
RECURSIVE Decode(_)
Decode(q) ==
    IF q = <<>> THEN <<>>
    ELSE IF Head(q) = "C3"
    THEN IF Len(q) >= 2 /\ q[2] = "A9"
         THEN <<"eacute">> \o Decode(Drop(q, 2))
         ELSE Decode(Tail(q))
    ELSE IF Head(q) = "A9" THEN Decode(Tail(q))
    ELSE IF Head(q) = CtrlC THEN <<"^C">> \o Decode(Tail(q))
    ELSE <<Head(q)>> \o Decode(Tail(q))

\* _coerce_bytes_to_text of the output field of a response.
CoerceBytesToText(obj) == Decode(obj)

\* The output bytes of a run of events, appended in order.
RECURSIVE Accumulate(_)
Accumulate(events) ==
    IF events = <<>> THEN <<>>
    ELSE (IF Head(events).output = NoOutput THEN <<>>
          ELSE Head(events).output) \o Accumulate(Tail(events))

\* A poll window closes: the aggregator puts the output of the events since
\* the last response into a response, and the observer writes the response,
\* its bytes coerced to text, as a frame.
Forward ==
    /\ forwarded.taken < Len(output_queue)
    /\ LET events == Drop(output_queue, forwarded.taken)
           output == Accumulate(events)
       IN  forwarded' =
             [taken |-> Len(output_queue),
              frames |-> IF output = <<>> THEN forwarded.frames
                         ELSE Append(forwarded.frames,
                                     CoerceBytesToText(output))]
    /\ UNCHANGED <<appVars, terminal, child, tty, pipe, caller, reader,
                   output_queue, messages>>

\* ---- several Terminals in one server process
\* The i-th lowest number of a set: a new descriptor gets the lowest number
\* that is free.
NthLowest(S, i) == CHOOSE n \in S : Cardinality({m \in S : m < n}) = i - 1

FreeNumbers == {n \in Fds : proc.fds[n] = FreeFd}

\* What a call of Terminal T did to a file or process group of Terminal
\* owner: after T's close() or before, to a Terminal that is open or not.
Touch(T, op, owner) ==
    [by |-> T, op |-> op, of |-> owner,
     closed |-> proc.handle[T].state = "closed",
     live |-> proc.handle[owner].state = "open"]

\* start_terminal: openpty gives master and slave, pipe gives the read and
\* the write end, fork gives a pid no process has; the parent closes the
\* slave and the write end and keeps the other two numbers and the pid.
StartTerminalAs(T, pid) ==
    /\ proc.handle[T].state = "none"
    /\ proc.pids[pid] = "none"
    /\ Cardinality(FreeNumbers) >= 4
    /\ LET master_fd == NthLowest(FreeNumbers, 1)
           sentinel_read_fd == NthLowest(FreeNumbers, 3)
       IN  proc' = [proc EXCEPT
                      !.handle[T] = [state |-> "open", pid |-> pid,
                                     master_fd |-> master_fd,
                                     sentinel_read_fd |-> sentinel_read_fd],
                      !.fds[master_fd] = [of |-> T, end |-> "master_fd"],
                      !.fds[sentinel_read_fd] =
                          [of |-> T, end |-> "sentinel_read_fd"],
                      !.pids[pid] = T]
    /\ UNCHANGED <<procVars, terminal, child, tty, pipe, caller, reader,
                   output_queue, forwarded, messages>>

\* Terminal.close, first call or later: os.close of the two numbers the
\* object holds, whatever file has them now (EBADF is swallowed), SIGTERM to
\* the process group whose id is the pid the object holds, then SIGKILL and
\* waitpid: the server being the parent of every shell, a child with that
\* pid is reaped or, when waitpid still says (0, 0), left behind.
CloseOf(T) ==
    /\ proc.handle[T].state # "none"
    /\ LET h == proc.handle[T]
           hit == {n \in {h.master_fd, h.sentinel_read_fd} :
                      proc.fds[n] # FreeFd}
           group == proc.pids[h.pid]
       IN  \E reaped \in BOOLEAN :
             proc' = [proc EXCEPT
                        !.handle[T].state = "closed",
                        !.fds = [n \in Fds |-> IF n \in hit THEN FreeFd
                                               ELSE @[n]],
                        !.pids[h.pid] = IF reaped THEN "none" ELSE @,
                        !.touched =
                            @ \cup {Touch(T, "close", proc.fds[n].of) :
                                       n \in hit}
                              \cup (IF group = "none" THEN {}
                                    ELSE {Touch(T, "killpg", group)})]
    /\ UNCHANGED <<procVars, terminal, child, tty, pipe, caller, reader,
                   output_queue, forwarded, messages>>

\* send_bytes and send_text: os.write to the number held as master_fd; EBADF
\* when no file has that number.
SendBytesOf(T) ==
    /\ proc.handle[T].state # "none"
    /\ LET file == proc.fds[proc.handle[T].master_fd]
       IN  proc' = IF file = FreeFd THEN proc
                   ELSE [proc EXCEPT
                           !.touched = @ \cup {Touch(T, "write", file.of)}]
    /\ UNCHANGED <<procVars, terminal, child, tty, pipe, caller, reader,
                   output_queue, forwarded, messages>>

\* send_signal: TIOCGPGRP on the number held as master_fd, which fails
\* unless a PTY master has that number, then killpg of the foreground group
\* of that PTY.
SendSignalOf(T) ==
    /\ proc.handle[T].state # "none"
    /\ LET file == proc.fds[proc.handle[T].master_fd]
       IN  proc' = IF file.end # "master_fd" THEN proc
                   ELSE [proc EXCEPT
                           !.touched = @ \cup {Touch(T, "killpg", file.of)}]
    /\ UNCHANGED <<procVars, terminal, child, tty, pipe, caller, reader,
                   output_queue, forwarded, messages>>

\* read_blocking: select on the two numbers held, EBADF when one of them has
\* no file, then os.read of what is readable there.
ReadBlockingOf(T) ==
    /\ proc.handle[T].state # "none"
    /\ LET h == proc.handle[T]
           files == {proc.fds[n] : n \in {h.master_fd, h.sentinel_read_fd}}
       IN  proc' = IF FreeFd \in files THEN proc
                   ELSE [proc EXCEPT
                           !.touched = @ \cup {Touch(T, "read", file.of) :
                                                 file \in files}]
    /\ UNCHANGED <<procVars, terminal, child, tty, pipe, caller, reader,
                   output_queue, forwarded, messages>>

\* ---- the bridge from the reader thread to the event loop
\* read_pty_into_queue hands each event to the loop with
\* loop.call_soon_threadsafe(output_queue.put, item): the call appends the
\* callback to the loop's list of ready callbacks, which has no bound, and
\* returns; output_queue here is the events so handed over, in order. The
\* first loop.put of them have been put by the loop, the first loop.got of
\* them taken by the aggregator.
Scheduled == Len(output_queue) - loop.put
InQueue == loop.put - loop.got

\* The loop runs the next ready callback, output_queue.put(item) of a
\* queue.Queue: with room the item is enqueued; with the queue full the call
\* waits on the queue's not_full condition, in the loop's own thread.
LoopRunsPut ==
    /\ ~loop.blocked
    /\ Scheduled > 0
    /\ loop' = IF InQueue < QueueSize
               THEN [loop EXCEPT !.put = @ + 1]
               ELSE [loop EXCEPT !.blocked = TRUE]
    /\ UNCHANGED <<bridgeVars, terminal, child, tty, pipe, caller, reader,
                   output_queue, forwarded, messages>>

\* The aggregator, a task of the loop, takes the oldest event of the queue.
AggregatorGet ==
    /\ ~loop.blocked
    /\ InQueue > 0
    /\ loop' = [loop EXCEPT !.got = @ + 1]
    /\ UNCHANGED <<bridgeVars, terminal, child, tty, pipe, caller, reader,
                   output_queue, forwarded, messages>>

\* ====================================================== webapp sessions API
\* The attributes of app.core.config.settings: the module defines class
\* Settings twice and instantiates the second one, which declares
\* DATABASE_URL only.
Settings == {"DATABASE_URL"}

\* Reading settings.ACTION_TERMINAL_URL raises AttributeError unless the
\* attribute is declared.
ActionTerminalUrlSet == "ACTION_TERMINAL_URL" \in Settings

WebTopics == {"t1", "t2"}
\* topic_id of a request body: absent, or a topic
WebTopicIds == {NoTopic} \cup WebTopics

\* The topics of the rows of table session_topics (migration 0002) of a
\* session.
StoredTopics(session_id) ==
    {messages.session_topics[i].topic_id :
        i \in {j \in DOMAIN messages.session_topics :
                 messages.session_topics[j].session_id = session_id}}

WebUnchanged ==
    UNCHANGED <<session_id_web_sockets, session_id_executions_dict,
                execution_id_session_id_dict, nextExec, nextResp, topicOps,
                ws, env, wsFrames, published, deletedAt, late, service_calls,
                st, topicVars, terminal, child, tty, pipe, caller, reader,
                output_queue, forwarded, loop, proc>>

\* POST /api/sessions: the new session gets an id no session has.
WebappCreateSession(id, topic_id) ==
    /\ id \notin messages.sessions
    /\ topic_id # NoTopic => Len(messages.session_topics) < MaxSessionTopics
    /\ messages' =
          [messages EXCEPT
             !.sessions = @ \cup {id},
             !.session_topics =
                IF topic_id # NoTopic
                THEN Append(@, [session_id |-> id, topic_id |-> topic_id])
                ELSE @]
    /\ reply' = Ok("create_session")
    /\ UNCHANGED <<session_id_topics, cb>>
    /\ WebUnchanged

\* POST /api/sessions/{session_id}/topics: the row is committed, then the
\* server is told, inside a try that swallows every exception.
WebappAddTopic(session_id, topic_id) ==
    /\ Len(messages.session_topics) < MaxSessionTopics
    /\ IF topic_id = NoTopic
       THEN /\ reply' = BadRequest("webapp_add_topic")
            /\ UNCHANGED <<messages, session_id_topics, cb>>
       ELSE IF session_id \notin messages.sessions
       THEN /\ reply' = [route |-> "webapp_add_topic", status |-> 404]
            /\ UNCHANGED <<messages, session_id_topics, cb>>
       ELSE /\ messages' =
                  [messages EXCEPT !.session_topics =
                      Append(@, [session_id |-> session_id,
                                 topic_id |-> topic_id])]
            /\ IF ActionTerminalUrlSet
               THEN /\ session_id_topics' =
                          TopicsAfterAdd(session_id_topics, session_id,
                                         topic_id)
                    /\ cb' = TopicsChanged(cb, session_id,
                                 DictGet(session_id_topics, session_id, {})
                                    \cup {topic_id})
               ELSE UNCHANGED <<session_id_topics, cb>>
            /\ reply' = Ok("webapp_add_topic")
    /\ WebUnchanged

\* DELETE /api/sessions/{session_id}/topics/{topic_id}: the rows are
\* deleted; the server is not called.
WebappRemoveTopic(session_id, topic_id) ==
    /\ messages' =
          [messages EXCEPT !.session_topics =
              Filter(@, {r \in Range(@) : ~(r.session_id = session_id
                                             /\ r.topic_id = topic_id)})]
    /\ reply' = Ok("webapp_remove_topic")
    /\ UNCHANGED <<session_id_topics, cb>>
    /\ WebUnchanged

\* ====================================================== webapp messages API
\* A row of table messages (migration 0003): created_at is the server's
\* NOW() at the insert; id stands for the row's UUID and numbers the rows
\* in the order of their creation.
\* POST /api/messages
CreateMessage(session_id) ==
    /\ Len(messages.rows) < MaxMessages
    /\ messages' = [messages EXCEPT !.rows =
                      Append(@, [id |-> Len(messages.rows) + 1,
                                 session_id |-> session_id,
                                 created_at |-> messages.now])]
    /\ reply' = [route |-> "create_message", status |-> 200]
    /\ UNCHANGED <<tables, nextExec, nextResp, topicOps, ws, cb, env,
                   wsFrames, published, deletedAt, late, service_calls, st,
                   topicVars, terminal, child, tty, pipe, caller, reader,
                   output_queue, forwarded, loop, proc>>

\* The database server's clock moves on.
ClockTicks ==
    /\ messages.now < MaxClock
    /\ messages' = [messages EXCEPT !.now = @ + 1]
    /\ UNCHANGED <<appVars, terminal, child, tty, pipe, caller, reader,
                   output_queue, forwarded>>

\* The since parameter: absent, not ISO 8601, or the text of a timestamp.
NotIso == [kind |-> "text", val |-> 0]
IsoText(t) == [kind |-> "iso", val |-> t]
SinceParams == {Absent, NotIso} \cup {IsoText(t) : t \in 0..MaxClock}

\* The rows the query selects: the session's, created after since if given.
Selected(rows, session_id, since) ==
    {i \in DOMAIN rows :
        /\ rows[i].session_id = session_id
        /\ since.kind = "iso" => rows[i].created_at > since.val}

\* ORDER BY created_at ASC: any order of the selected rows in which
\* created_at never decreases.
OrderByCreatedAt(rows, S) ==
    {o \in Orders(S) :
        \A i, j \in DOMAIN o :
            i < j => rows[o[i]].created_at <= rows[o[j]].created_at}

\* GET /api/messages
ListMessages(session_id, since) ==
    /\ IF since.kind = "text"
       THEN reply' = BadRequest("messages")
       ELSE \E o \in OrderByCreatedAt(messages.rows,
                        Selected(messages.rows, session_id, since)) :
               reply' = [route |-> "messages", status |-> 200,
                         session_id |-> session_id, since |-> since,
                         stored |-> Len(messages.rows),
                         items |-> [i \in DOMAIN o |-> messages.rows[o[i]]]]
    /\ UNCHANGED <<tables, nextExec, nextResp, topicOps, ws, cb, env,
                   wsFrames, published, deletedAt, late, service_calls, st,
                   topicVars, hostVars>>


\* ------------------------------------------------------ specifications
\* Requests and emissions that exercise the WebSocket fanout; no session is
\* deleted.
WsEnv == [observe |-> {"ws"}, serial |-> TRUE, sockets |-> MaxSockets,
          exec |-> MaxExec, resp |-> MaxResp, topicOps |-> 0]

WsFanoutNext ==
    \/ \E s \in Sessions : Execute(s)
    \/ \E w \in Sockets, s \in Sessions : WsConnect(w, s)
    \/ \E w \in Sockets : WsFail(w)
    \/ \E w \in Sockets : WsError(w)
    \/ \E w \in Sockets : WsEnd(w)
    \/ \E e \in 1..MaxExec : ObserverBegin(e)
    \/ \E r \in Resps : ObserverSendReturn(r)

SpecWsFanout == Init(WsEnv) /\ [][WsFanoutNext]_vars

\* Connects before and after executions exist, with observer sends.
ConnectEnv == [observe |-> {"ws"}, serial |-> TRUE, sockets |-> ConMaxSockets,
               exec |-> ConMaxExec, resp |-> ConMaxResp, topicOps |-> 0]

ConnectNext ==
    \/ \E s \in Sessions : Execute(s)
    \/ \E w \in Sockets, s \in Sessions : WsConnect(w, s)
    \/ \E w \in Sockets : WsFail(w)
    \/ \E e \in 1..MaxExec : ObserverBegin(e)
    \/ \E r \in Resps : ObserverSendReturn(r)

SpecConnect == Init(ConnectEnv) /\ [][ConnectNext]_vars

\* Sends that fail while callbacks of two executions overlap, in a session
\* that has topics.
WsFailureEnv == [observe |-> {"fail"}, serial |-> TRUE,
                 sockets |-> MaxSockets, exec |-> MaxExec, resp |-> MaxResp,
                 topicOps |-> FailMaxTopicOps]

WsFailureNext ==
    \/ \E s \in Sessions : Execute(s)
    \/ \E w \in Sockets, s \in Sessions : WsConnect(w, s)
    \/ \E w \in Sockets : WsFail(w)
    \/ \E s \in Sessions, t \in DelTopics : AddTopic(s, t)
    \/ \E e \in 1..MaxExec : ObserverBegin(e)
    \/ \E r \in Resps : ObserverSendReturn(r)
    \/ \E r \in Resps : ObserverPublishReturn(r)

SpecWsFailure == Init(WsFailureEnv) /\ [][WsFailureNext]_vars

\* Requests and emissions that exercise the topic fanout.
TopicEnv == [observe |-> {"topics"}, serial |-> TRUE, sockets |-> 0,
             exec |-> MaxExec, resp |-> MaxResp, topicOps |-> MaxTopicOps]

TopicFanoutNext ==
    \/ \E s \in Sessions : Execute(s)
    \/ \E s \in Sessions, t \in Topics : AddTopic(s, t)
    \/ \E s \in Sessions, t \in Topics : RemoveTopic(s, t)
    \/ \E s \in Sessions : DeleteSession(s)
    \/ \E e \in 1..MaxExec : ObserverBegin(e)
    \/ \E r \in Resps : ObserverPublishReturn(r)

SpecTopicFanout == Init(TopicEnv) /\ [][TopicFanoutNext]_vars

\* Sessions built up by execute, websocket connect and add_topic calls,
\* deleted while the engine keeps emitting, responses of one execution
\* overlapping included.
DeleteEnv == [observe |-> {"late"}, serial |-> FALSE, sockets |-> DelMaxSockets,
              exec |-> DelMaxExec, resp |-> DelMaxResp,
              topicOps |-> DelMaxTopicOps]

DeleteNext ==
    \/ \E s \in Sessions : Execute(s)
    \/ \E w \in Sockets, s \in Sessions : WsConnect(w, s)
    \/ \E s \in Sessions, t \in DelTopics : AddTopic(s, t)
    \/ \E s \in Sessions : DeleteSession(s)
    \/ \E e \in 1..MaxExec : ObserverBegin(e)
    \/ \E r \in Resps : ObserverSendReturn(r)
    \/ \E r \in Resps : ObserverPublishReturn(r)

SpecDelete == Init(DeleteEnv) /\ [][DeleteNext]_vars

\* Requests that change the session tables.
TablesEnv == [observe |-> {"service"}, serial |-> TRUE,
              sockets |-> TblMaxSockets, exec |-> TblMaxExec, resp |-> 0,
              topicOps |-> TblMaxTopicOps]

TablesNext ==
    \/ \E s \in Sessions : Execute(s)
    \/ \E w \in Sockets, s \in Sessions : WsConnect(w, s)
    \/ \E s \in Sessions, t \in DelTopics : AddTopic(s, t)
    \/ \E s \in Sessions, t \in DelTopics : RemoveTopic(s, t)
    \/ \E s \in Sessions : DeleteSession(s)

SpecTables == Init(TablesEnv) /\ [][TablesNext]_vars

\* Listings of the sessions, and malformed requests, while sessions appear
\* and are deleted.
SessionsEnv == [observe |-> {}, serial |-> TRUE, sockets |-> SesMaxSockets,
                exec |-> SesMaxExec, resp |-> 0, topicOps |-> 0]

SessionsNext ==
    \/ \E s \in AllSessions : Execute(s)
    \/ \E w \in Sockets, s \in AllSessions : WsConnect(w, s)
    \/ \E s \in AllSessions : DeleteSession(s)
    \/ \E page_q \in PageParams, size_q \in PageSizeParams :
          GetSessions(page_q, size_q)
    \/ \E route \in Routes : \E defect \in Defects[route] :
          Malformed(route, defect)

SpecSessions == Init(SessionsEnv) /\ [][SessionsNext]_vars

\* Requests that are answered with an error among requests that change the
\* tables.
ErrorsEnv == [observe |-> {}, serial |-> TRUE, sockets |-> SesMaxSockets,
              exec |-> SesMaxExec, resp |-> 0, topicOps |-> TblMaxTopicOps]

ErrorsNext ==
    \/ \E s \in Sessions : Execute(s)
    \/ \E w \in Sockets, s \in Sessions : WsConnect(w, s)
    \/ \E w \in Sockets, s \in Sessions : WsSnapshotFails(w, s)
    \/ \E s \in Sessions, t \in DelTopics : AddTopic(s, t)
    \/ \E s \in Sessions, t \in DelTopics : RemoveTopic(s, t)
    \/ \E s \in Sessions : DeleteSession(s)
    \/ \E page_q \in PageParams, size_q \in PageSizeParams :
          GetSessions(page_q, size_q)
    \/ \E route \in Routes : \E defect \in Defects[route] :
          Malformed(route, defect)

SpecErrors == Init(ErrorsEnv) /\ [][ErrorsNext]_vars

\* One POST /state while sockets connect, executions start and
\* topics are subscribed.
StateEnv == [observe |-> {}, serial |-> TRUE, sockets |-> StMaxSockets,
             exec |-> StMaxExec, resp |-> 0, topicOps |-> StMaxTopicOps]

StateNext ==
    \/ \E s \in Sessions : Execute(s)
    \/ \E w \in Sockets, s \in Sessions : WsConnect(w, s)
    \/ \E s \in Sessions, t \in DelTopics : AddTopic(s, t)
    \/ \E sessions \in StateSessionLists, topic_id \in StateTopicIds :
          StateBegin(sessions, topic_id)
    \/ \E raised \in BOOLEAN : StateSendReturn(raised)
    \/ \E raised \in BOOLEAN : StatePublishReturn(raised)

SpecState == Init(StateEnv) /\ [][StateNext]_vars

\* POST /state and GET /sessions among the requests that fill the tables,
\* sends of the state handler that fail included.
ReadOnlyEnv == [observe |-> {}, serial |-> TRUE, sockets |-> SesMaxSockets,
                exec |-> StMaxExec, resp |-> 0, topicOps |-> StMaxTopicOps]

\* The page and page_size parameters of the listings of this specification:
\* the default page and a later one, one session per page.
ReadOnlyPages == {Absent, IntText(2)}
ReadOnlySizes == {IntText(1)}

\* The state requests of this specification name no topic: what they publish
\* goes to the topics of the session.
ReadOnlyTopicIds == {NoTopic}

ReadOnlyNext ==
    \/ \E s \in Sessions : Execute(s)
    \/ \E w \in Sockets, s \in Sessions : WsConnect(w, s)
    \/ \E s \in Sessions, t \in DelTopics : AddTopic(s, t)
    \/ \E sessions \in StateSessionLists, topic_id \in ReadOnlyTopicIds :
          StateBegin(sessions, topic_id)
    \/ \E raised \in BOOLEAN : StateSendReturn(raised)
    \/ \E raised \in BOOLEAN : StatePublishReturn(raised)
    \/ \E page_q \in ReadOnlyPages, size_q \in ReadOnlySizes :
          GetSessions(page_q, size_q)

SpecReadOnly == Init(ReadOnlyEnv) /\ [][ReadOnlyNext]_vars

\* Topics added to and removed from sessions, and sessions deleted.
TopicsTableEnv == [observe |-> {}, serial |-> TRUE, sockets |-> 0,
                   exec |-> 0, resp |-> 0, topicOps |-> TopMaxOps]

TopicsTableNext ==
    \/ \E s \in Sessions, t \in Topics : AddTopic(s, t)
    \/ \E s \in Sessions, t \in Topics : RemoveTopic(s, t)
    \/ \E s \in Sessions : DeleteSession(s)

SpecTopicsTable == Init(TopicsTableEnv) /\ [][TopicsTableNext]_vars

\* Streams opened, served, cancelled and abandoned while publishers publish.
TopicMgrEnv == [observe |-> {"ended"}, serial |-> TRUE, sockets |-> 0,
                exec |-> 0, resp |-> 0, topicOps |-> 0]

TopicNext ==
    \/ \E t \in StreamTopics : TopicPublish(t)
    \/ Deliver
    \/ \E k \in Streams, t \in StreamTopics : StreamOpen(k, t)
    \/ \E k \in Streams : StreamPrepared(k)
    \/ \E k \in Streams : StreamPrepareFails(k)
    \/ \E k \in Streams : ClientGone(k)
    \/ \E k \in Streams : PumpStart(k)
    \/ \E k \in Streams : PumpGet(k)
    \/ \E k \in Streams : PumpWriteReturn(k)
    \/ \E k \in Streams : PumpCancel(k)
    \/ \E k \in Streams : HandlerCancel(k)
    \/ \E k \in Streams : StreamFinish(k)

SpecTopic == Init(TopicMgrEnv) /\ [][TopicNext]_vars

\* Subscribers come and go while publishers publish.
DeliveryEnv == [observe |-> {}, serial |-> TRUE, sockets |-> 0, exec |-> 0,
                resp |-> 0, topicOps |-> 0]

\* Topic names are opaque keys to the TopicManager, so runs that differ only
\* by exchanging the two names are the same run: "t2" is named only after
\* "t1" was.
TopicInOrder(t) ==
    \/ t = "t1"
    \/ \E p \in DOMAIN pubs : pubs[p].topic = "t1"
    \/ \E k \in Streams : stream[k].topic = "t1"

DeliveryNext ==
    \/ \E t \in StreamTopics : TopicInOrder(t) /\ TopicPublish(t)
    \/ Deliver
    \/ \E k \in Streams, t \in StreamTopics :
          TopicInOrder(t) /\ StreamOpen(k, t)
    \/ \E k \in Streams : StreamPrepared(k)
    \/ \E k \in Streams : PumpStart(k)
    \/ \E k \in Streams : PumpGet(k)
    \/ \E k \in Streams : PumpWriteReturn(k)
    \/ \E k \in Streams : PumpCancel(k)
    \/ \E k \in Streams : StreamFinish(k)

SpecDelivery == Init(DeliveryEnv) /\ [][DeliveryNext]_vars

\* The registry of subscribers: streams are opened, fail in prepare, are
\* cancelled before and after their pump ran and end, while publishers
\* publish. No delivery task runs, so the queues, which play no part in the
\* registry, stay empty.
RegistryNext ==
    \/ \E t \in StreamTopics : TopicInOrder(t) /\ TopicPublish(t)
    \/ \E k \in Streams, t \in StreamTopics :
          TopicInOrder(t) /\ StreamOpen(k, t)
    \/ \E k \in Streams : StreamPrepared(k)
    \/ \E k \in Streams : StreamPrepareFails(k)
    \/ \E k \in Streams : PumpStart(k)
    \/ \E k \in Streams : PumpCancel(k)
    \/ \E k \in Streams : HandlerCancel(k)
    \/ \E k \in Streams : StreamFinish(k)

SpecRegistry == Init(DeliveryEnv) /\ [][RegistryNext]_vars

\* The host side needs none of the server's request budgets.
HostEnv == [observe |-> {}, serial |-> TRUE, sockets |-> 0, exec |-> 0,
            resp |-> 0, topicOps |-> 0]

\* A Terminal is started and its methods are called while the shell runs
\* commands, reads what is typed, exits or is killed.
TerminalNext ==
    \/ \E forked \in BOOLEAN : StartTerminal(forked)
    \/ \E sigterm \in {"exits", "ignores"} : ChildExec(sigterm)
    \/ ChildExecFails
    \/ ShellExits
    \/ \E sig \in Signals \cup {"SIGKILL"} : DeliverSignal(sig)
    \/ CommandStarts
    \/ CommandExits
    \/ SlaveReads
    \/ \E input_bytes \in SeqsUpTo(InputBytes, MaxInput) :
          SendBytes(input_bytes)
    \/ \E text \in SeqsUpTo(Chars, MaxText) : SendText(text)
    \/ WriteAllToFd
    \/ \E sig \in Signals : SendSignal(sig)
    \/ SendSignalKillpg
    \/ Close
    \/ CloseSigterm
    \/ CloseWait
    \/ CloseSigkill
    \/ CloseReap
SpecTerminal == Init(HostEnv) /\ [][TerminalNext]_vars

\* A reader thread on a started Terminal, the shell writing output and
\* prompts, Ctrl-C typed, and the shell's exit.
ReaderNext ==
    \/ StartTerminal(TRUE)
    \/ ChildExec("exits")
    \/ ShellExits
    \/ \E b \in OutputBytes : SlaveWrites(<<b>>)
    \/ PromptCommand
    \/ SendBytes(<<CtrlC>>)
    \/ WriteAllToFd
    \/ ReaderStart
    \/ PollReadFds
    \/ SelectReturns
    \/ ReadSentinel
    \/ \E hangup \in Hangups : ReadMaster(hangup)
    \/ Forward
SpecReader == Init(HostEnv) /\ [][ReaderNext]_vars

\* The reader thread alone: the shell writes output and prompts and exits,
\* nothing is typed and nothing forwarded.
ReaderEventsNext ==
    \/ StartTerminal(TRUE)
    \/ ChildExec("exits")
    \/ ShellExits
    \/ \E b \in OutputBytes : SlaveWrites(<<b>>)
    \/ PromptCommand
    \/ ReaderStart
    \/ PollReadFds
    \/ SelectReturns
    \/ ReadSentinel
    \/ \E hangup \in Hangups : ReadMaster(hangup)
SpecReaderEvents == Init(HostEnv) /\ [][ReaderEventsNext]_vars

\* Two Terminals of one server process, started, used and closed in any
\* order, each any number of times.
HandlesNext ==
    \/ \E T \in Handles, pid \in Pids : StartTerminalAs(T, pid)
    \/ \E T \in Handles : CloseOf(T)
    \/ \E T \in Handles : SendBytesOf(T)
    \/ \E T \in Handles : SendSignalOf(T)
    \/ \E T \in Handles : ReadBlockingOf(T)
SpecHandles == Init(HostEnv) /\ [][HandlesNext]_vars

\* The reader thread, the event loop that runs the puts handed to it, and
\* the aggregator that takes the events.
BridgeNext ==
    \/ StartTerminal(TRUE)
    \/ ChildExec("exits")
    \/ ShellExits
    \/ \E b \in OutputBytes : SlaveWrites(<<b>>)
    \/ PromptCommand
    \/ ReaderStart
    \/ PollReadFds
    \/ SelectReturns
    \/ ReadSentinel
    \/ \E hangup \in Hangups : ReadMaster(hangup)
    \/ LoopRunsPut
    \/ AggregatorGet
SpecBridge == Init(HostEnv) /\ [][BridgeNext]_vars

\* close() is called while the reader thread runs. The thread gets the
\* processor, the kernel delivers the signals sent, and the calls of close()
\* and its two-second wait go on; nothing obliges the shell or its
\* background job to do anything, and a select on a descriptor closed under
\* it need not fail.
ReaderStep ==
    \/ PollReadFds
    \/ SelectReturns
    \/ ReadSentinel
    \/ \E hangup \in Hangups : ReadMaster(hangup)
CloseStep == CloseSigterm \/ CloseWait \/ CloseSigkill \/ CloseReap
KernelStep == \E sig \in {"SIGTERM", "SIGKILL"} : DeliverSignal(sig)
ReaderLiveNext ==
    \/ StartTerminal(TRUE)
    \/ \E sigterm \in {"exits", "ignores"} : ChildExec(sigterm)
    \/ ShellExits
    \/ JobStarts
    \/ JobExits
    \/ \E b \in OutputBytes : SlaveWrites(<<b>>)
    \/ PromptCommand
    \/ ReaderStart
    \/ ReaderStep
    \/ SelectFailsOnClose
    \/ Close
    \/ CloseStep
    \/ KernelStep
SpecReaderLive ==
    /\ Init(HostEnv)
    /\ [][ReaderLiveNext]_vars
    /\ WF_vars(ReaderStep)
    /\ WF_vars(CloseStep)
    /\ WF_vars(KernelStep)

\* Sessions are created in the webapp, topics are added to them and removed.
WebTopicsNext ==
    \/ \E s \in Sessions : WebappCreateSession(s, NoTopic)
    \/ \E s \in Sessions, t \in WebTopicIds : WebappAddTopic(s, t)
    \/ \E s \in Sessions, t \in WebTopics : WebappRemoveTopic(s, t)
SpecWebTopics == Init(HostEnv) /\ [][WebTopicsNext]_vars

\* Messages are created and listed while the database clock advances.
MessagesNext ==
    \/ \E s \in Sessions : CreateMessage(s)
    \/ ClockTicks
    \/ \E s \in Sessions, since \in SinceParams : ListMessages(s, since)
SpecMessages == Init(HostEnv) /\ [][MessagesNext]_vars

\* ------------------------------------------------------ properties
Items(k) == dequeued[k] \o queue[k]
Count(q, m) == Cardinality({i \in DOMAIN q : q[i] = m})
Pending(p, k) == \E i \in DOMAIN ready : ready[i] = [pub |-> p, sub |-> k]
Listed(w) == \E s \in DOMAIN session_id_web_sockets :
                 w \in Range(session_id_web_sockets[s])

\* C1: a callback that begins after delete_session(s), for an execution that
\* was in s's execution list when s was deleted, sends no frame to a socket
\* and publishes to no topic that s's tables held at that time.
C1_NoFanoutAfterDelete ==
    \A x \in late :
        /\ x.socket \notin deletedAt[x.exec].sockets
        /\ x.topic \notin deletedAt[x.exec].topics

\* C1 witness: a callback began after its execution's session was deleted
\* with a socket and a topic registered, and was dropped.
C1_LateCallbackDropped ==
    \E r \in Resps :
        /\ cb[r].pc = "dropped"
        /\ cb[r].afterDelete
        /\ deletedAt[cb[r].exec].sockets # {}
        /\ deletedAt[cb[r].exec].topics # {}

\* C2: while no session is deleted, a socket that is registered, healthy and
\* open is never dropped from its session's WebSocket list.
C2_HealthySocketStaysListed ==
    \A w \in Sockets :
        ws[w].pc = "open" /\ ~ws[w].broken
            => w \in Range(DictGet(session_id_web_sockets, ws[w].session, <<>>))

\* C3: the ExecutionResponse frames written on a socket appear in the order
\* in which the observer was invoked.
C3_FramesInEmissionOrder ==
    \A w \in Sockets :
        \A i, j \in DOMAIN wsFrames[w] :
            i < j => wsFrames[w][i] < wsFrames[w][j]

\* C4: a callback that is over has published its response to every topic
\* that stayed in the session's topic set for the whole of the callback.
C4_StableTopicsPublished ==
    \A r \in Resps :
        cb[r].pc \in {"done", "error"} =>
            \A t \in cb[r].stable :
                [topic |-> t, resp |-> r, session |-> cb[r].session]
                    \in published

\* C5: a subscriber dequeues messages in the order of their publish calls.
C5_DequeueInPublishOrder ==
    \A k \in Streams :
        \A i, j \in DOMAIN dequeued[k] :
            i < j => dequeued[k][i] < dequeued[k][j]

\* C5 witness: one subscriber has dequeued the messages of two publish
\* calls.
C5_TwoDequeued == \E k \in Streams : Len(dequeued[k]) >= 2

\* C6: a publish enqueues its message at most once per subscriber, only to
\* subscribers registered on the topic when the publish was made, and, once
\* its deliveries have run, to every such subscriber that is not closed.
C6_ExactlyOnceToSnapshot ==
    \A k \in Streams :
        LET items == Items(k) IN
        \A p \in DOMAIN pubs :
            LET n == Count(items, p)
            IN /\ n <= 1
               /\ n = 1 => k \in pubs[p].registered
               /\ ~closed[k] /\ k \in pubs[p].registered /\ ~Pending(p, k)
                     => n = 1

\* C6 witness: a publish reached a subscriber of its topic, and another
\* subscriber that registered on the same topic afterwards did not get it.
C6_LateSubscriberSkipped ==
    \E p \in DOMAIN pubs, k, j \in Streams :
        /\ k \in pubs[p].registered
        /\ Count(Items(k), p) = 1
        /\ j \notin pubs[p].registered
        /\ j \in DictGet(topic_subscribers, pubs[p].topic, {})
        /\ ready = <<>>

\* C7: some published message is always missing from a subscriber's queue:
\* the queue never holds as many messages as there were publish calls.
C7_QueueBelowCapacity ==
    \A k \in Streams :
        Cardinality({i \in DOMAIN queue[k] : queue[k][i] # ClosedSentinel})
            < MaxPub

\* C8: a subscriber's queue receives at most one closed-sentinel.
C8_OneSentinel == \A k \in Streams : Count(Items(k), ClosedSentinel) <= 1

\* C9: when the stream endpoint is over, its subscriber is no longer in the
\* topic's subscriber set.
C9_DoneStreamUnsubscribed ==
    \A k \in Streams :
        stream[k].pc = "done" =>
            k \notin DictGet(topic_subscribers, stream[k].topic, {})

\* C10: a socket whose handler is over is in no session's WebSocket list.
C10_EndedSocketRemoved ==
    \A w \in Sockets : ws[w].pc = "done" => ~Listed(w)

SameEntry(f, g, k) ==
    /\ (k \in DOMAIN f) = (k \in DOMAIN g)
    /\ k \in DOMAIN f => f[k] = g[k]

\* C13: every execution id of the reverse map is, once, in the execution
\* list of the session the reverse map names and in no other list, and every
\* reference of a list has a reverse-map entry naming that list's session.
C13_ReverseMapConsistent ==
    /\ \A e \in DOMAIN execution_id_session_id_dict :
          LET s == execution_id_session_id_dict[e] IN
          /\ s \in DOMAIN session_id_executions_dict
          /\ Count(session_id_executions_dict[s], e) = 1
          /\ \A o \in DOMAIN session_id_executions_dict \ {s} :
                e \notin Range(session_id_executions_dict[o])
    /\ \A s \in DOMAIN session_id_executions_dict :
          \A e \in Range(session_id_executions_dict[s]) :
              /\ e \in DOMAIN execution_id_session_id_dict
              /\ execution_id_session_id_dict[e] = s

\* C13 witness: a session with executions was deleted (an execution that was
\* created has no reverse entry) while another session owns executions.
C13_DeletedBesideLive ==
    /\ Cardinality(DOMAIN execution_id_session_id_dict) < nextExec - 1
    /\ execution_id_session_id_dict # EmptyDict

\* C14: a delete_session(s) step leaves s in none of the three tables and
\* in no reverse-map entry, changes no entry of another session, and makes
\* no call to the Service.
C14_DeleteFrame ==
    [][\A s \in Sessions :
         DeleteSession(s) =>
           /\ s \notin DOMAIN session_id_web_sockets'
           /\ s \notin DOMAIN session_id_executions_dict'
           /\ s \notin DOMAIN session_id_topics'
           /\ \A e \in DOMAIN execution_id_session_id_dict' :
                 /\ execution_id_session_id_dict'[e] # s
                 /\ e \in DOMAIN execution_id_session_id_dict
           /\ \A e \in DOMAIN execution_id_session_id_dict :
                 execution_id_session_id_dict[e] # s =>
                    /\ e \in DOMAIN execution_id_session_id_dict'
                    /\ execution_id_session_id_dict'[e]
                          = execution_id_session_id_dict[e]
           /\ \A o \in Sessions \ {s} :
                 /\ SameEntry(session_id_web_sockets,
                              session_id_web_sockets', o)
                 /\ SameEntry(session_id_executions_dict,
                              session_id_executions_dict', o)
                 /\ SameEntry(session_id_topics, session_id_topics', o)
           /\ service_calls' = service_calls
           /\ nextExec' = nextExec]_vars

\* C14 witness: a session that had a socket and an execution was deleted
\* (the socket is open but in no list, the execution has no reverse entry),
\* and another session still has a socket, an execution and a topic.
C14_DeletedBesideFullSession ==
    /\ \E w \in Sockets : ws[w].pc = "open" /\ ~Listed(w)
    /\ Cardinality(DOMAIN execution_id_session_id_dict) < nextExec - 1
    /\ \E o \in Sessions :
          /\ o \in DOMAIN session_id_web_sockets
          /\ o \in DOMAIN session_id_executions_dict
          /\ o \in DOMAIN session_id_topics

\* C19: a POST /execute step calls set_poll_interval, with the request's
\* poll_interval, on exactly the references that were in the session's list,
\* in order, before the Service's execute; without poll_interval it calls
\* execute only; the new reference is then the last of the session's list
\* and the reverse map names the session for it.
C19_PollIntervalThenExecute ==
    [][nextExec' # nextExec =>
         LET new == service_calls'
             ref == nextExec
             last == new[Len(new)]
             s == execution_id_session_id_dict'[ref]
             before == DictGet(session_id_executions_dict, s, <<>>)
         IN /\ Len(new) >= 1
            /\ last.op = "execute" /\ last.ref = ref
            /\ ref \in DOMAIN execution_id_session_id_dict'
            /\ IF last.arg = NoPollInterval
               THEN Len(new) = 1
               ELSE /\ Len(new) = Len(before) + 1
                    /\ \A i \in 1..Len(before) :
                          new[i] = [op |-> "set_poll_interval",
                                    ref |-> before[i], arg |-> last.arg]
            /\ session_id_executions_dict'[s] = Append(before, ref)]_vars

\* C19 witness: a request with a poll_interval came to a session that owned
\* an execution while another session owned one too.
C19_PollIntervalApplied ==
    /\ \E i \in DOMAIN service_calls :
          service_calls[i].op = "set_poll_interval"
    /\ Cardinality(DOMAIN session_id_executions_dict) >= 2

\* C15 as stated: add_topic(s, t) then remove_topic(s, t) restores the
\* topics table from every prior state, the set already holding t included.
C15_RoundTripFromAnySet ==
    \A s \in Sessions, t \in Topics :
        TopicsAfterRemove(TopicsAfterAdd(session_id_topics, s, t), s, t)
            = session_id_topics

\* C15 amended: when the session's prior topic set does not hold t (no entry,
\* or a set without t), add_topic(s, t) then remove_topic(s, t) leaves the
\* topics table as before.
C15_RoundTripFromSetWithout ==
    \A s \in Sessions, t \in Topics :
        t \notin DictGet(session_id_topics, s, {}) =>
            TopicsAfterRemove(TopicsAfterAdd(session_id_topics, s, t), s, t)
                = session_id_topics

\* C15 witness: one session has a set of two topics without the third, the
\* other has no entry, and topics were removed before.
C15_SetWithoutAndNoEntry ==
    /\ \E s \in DOMAIN session_id_topics :
          Cardinality(session_id_topics[s]) = 2
    /\ \E s \in Sessions : s \notin DOMAIN session_id_topics
    /\ topicOps >= 3

\* C12: a connect to a session that owns executions makes the snapshot the
\* socket's first frame, a connect to a session without executions sends no
\* frame, frames are only ever appended, and no snapshot follows another
\* frame: no ExecutionResponse precedes the snapshot.
C12_SnapshotFirstOrNever ==
    [][/\ \A w \in Sockets, s \in Sessions :
            WsConnect(w, s) =>
               wsFrames'[w] =
                  IF DictGet(session_id_executions_dict, s, <<>>) # <<>>
                  THEN <<SnapshotFrame>> ELSE <<>>
       /\ \A w \in Sockets :
            /\ Len(wsFrames'[w]) >= Len(wsFrames[w])
            /\ SubSeq(wsFrames'[w], 1, Len(wsFrames[w])) = wsFrames[w]
            /\ \A i \in 2..Len(wsFrames'[w]) :
                  wsFrames'[w][i] # SnapshotFrame]_vars

\* C12 witness: one socket got the snapshot and then an ExecutionResponse,
\* another got an ExecutionResponse and never a snapshot.
C12_SnapshotThenResponse ==
    \E w, v \in Sockets :
        /\ Len(wsFrames[w]) >= 2
        /\ wsFrames[w][1] = SnapshotFrame
        /\ wsFrames[v] # <<>>
        /\ wsFrames[v][1] # SnapshotFrame

\* C11: when an observer callback finishes, no socket whose send failed in
\* that callback is in a session's list.
C11_FailedSocketAbsent ==
    [][\A r \in Resps :
         (cb[r].pc \in {"ws", "topics"} /\ cb'[r].pc = "done") =>
             \A w \in cb'[r].failed :
                 \A s \in DOMAIN session_id_web_sockets' :
                     w \notin Range(session_id_web_sockets'[s])]_vars

Known == DOMAIN session_id_executions_dict \cup DOMAIN session_id_web_sockets
Rank(s) == CHOOSE i \in DOMAIN SessionOrder : SessionOrder[i] = s
CeilDiv(a, b) == (a + b - 1) \div b

RECURSIVE Concat(_)
Concat(qs) == IF qs = <<>> THEN <<>> ELSE Head(qs) \o Concat(Tail(qs))

\* C16: for the tables of any reachable state and a page_size of 1, 2, 3,
\* 1000 or the default, pages 1..ceil(total/page_size) of GET /sessions are
\* all answered 200 with the same total, and their items, concatenated, are
\* every session id known via executions or WebSockets, once, ascending.
C16_PagesPartitionSessions ==
    \A size_q \in {Absent} \cup {IntText(n) : n \in {1, 2, 3, MaxPageSize}} :
        LET total == Cardinality(Known)
            last == CeilDiv(total, QueryInt(size_q, DefaultPageSize))
            pages == [p \in 1..last |->
                         SessionsReply(session_id_executions_dict,
                                       session_id_web_sockets,
                                       IntText(p), size_q)]
        IN /\ \A p \in 1..last :
                 pages[p].status = 200 /\ pages[p].total = total
           /\ LET all == Concat([p \in 1..last |-> pages[p].items])
              IN /\ Len(all) = total
                 /\ Range(all) = Known
                 /\ \A i, j \in 1..Len(all) :
                       i < j => Rank(all[i]) < Rank(all[j])

\* C16 witness: three sessions are known, one via a WebSocket only and one
\* via executions only, and the second of several pages was served.
C16_SecondPageServed ==
    /\ Cardinality(Known) = 3
    /\ DOMAIN session_id_web_sockets \ DOMAIN session_id_executions_dict # {}
    /\ DOMAIN session_id_executions_dict \ DOMAIN session_id_web_sockets # {}
    /\ reply.route = "sessions" /\ reply.status = 200
    /\ reply.page = 2 /\ reply.items # <<>> /\ reply.total = 3

\* C17: GET /sessions is answered 400 exactly when page or page_size is not
\* an integer, page < 1, page_size < 1, page_size > 1000 or
\* page > max(1, ceil(total/page_size)), whatever the tables hold, and 200
\* otherwise.
C17_RejectedExactlyWhenInvalid ==
    [][\A page_q \in PageParams, size_q \in PageSizeParams :
         GetSessions(page_q, size_q) =>
            LET page == QueryInt(page_q, DefaultPage)
                page_size == QueryInt(size_q, DefaultPageSize)
                pages == CeilDiv(Cardinality(Known), page_size)
                invalid ==
                    \/ page_q.kind = "text" \/ size_q.kind = "text"
                    \/ page < 1 \/ page_size < 1 \/ page_size > 1000
                    \/ page > (IF pages > 1 THEN pages ELSE 1)
            IN reply'.status = IF invalid THEN 400 ELSE 200]_vars

\* C18: a malformed request (POST /execute, POST /state or POST
\* /sessions/{sid}/topics with a body that is not JSON or has the wrong
\* shape, GET /websocket without the session_id header) is answered 400.
C18_MalformedAnswered400 ==
    [][\A route \in Routes : \A defect \in Defects[route] :
         Malformed(route, defect) => reply'.status = 400]_vars

\* The send_json or publish calls of round k to destination d.
StateCalls(call, k, d) ==
    {i \in DOMAIN st.log :
        st.log[i].call = call /\ st.log[i].round = k /\ st.log[i].to = d}

\* The pid-keyed process state of a process list: one key per pid that
\* occurs, holding the last item of that pid without the pid.
KeyedByPid(state) ==
    LET with == {i \in DOMAIN state : state[i].pid # NoPid}
        last(p) == CHOOSE i \in with :
                      /\ state[i].pid = p
                      /\ \A j \in with : state[j].pid = p => j <= i
    IN [key \in {Str(state[i].pid) : i \in with} |->
          LET i == CHOOSE i \in with : Str(state[i].pid) = key
          IN [status |-> state[last(state[i].pid)].status]]

\* C20: when POST /state has returned, it has made one round per listed
\* session, in order; in each round every socket that was on the session
\* got exactly one send_json and every topic of (the session's topics, with
\* the request's topic_id) exactly one publish, no other socket or topic got
\* one, whether or not an earlier call raised; every call carried the
\* snapshot of the session: its id, its execution ids in list order and the
\* process state keyed by pid.
C20_StateDeliversSnapshots ==
    st.pc = "done" =>
      /\ Len(st.rounds) = Len(st.request)
      /\ \A k \in DOMAIN st.rounds :
           LET R == st.rounds[k]
               wanted == R.topics \cup
                         (IF st.topic # NoTopic THEN {st.topic} ELSE {})
               snapshot == [session_id |-> R.session,
                            execution_ids |-> R.execution_ids,
                            processes |-> KeyedByPid(R.state)]
           IN /\ R.session = st.request[k]
              /\ \A w \in Sockets :
                    Cardinality(StateCalls("send_json", k, w))
                        = IF w \in R.sockets THEN 1 ELSE 0
              /\ \A t \in Topics :
                    Cardinality(StateCalls("publish", k, t))
                        = IF t \in wanted THEN 1 ELSE 0
              /\ \A i \in DOMAIN st.log :
                    st.log[i].round = k => st.log[i].payload = snapshot

\* C20 witness: a request for two sessions with a topic_id has returned; a
\* send_json raised and a later socket of the same round was still sent
\* to; a publish raised and a later topic was still published to; the
\* snapshot held execution ids and process state.
C20_DeliveredDespiteFailures ==
    /\ st.pc = "done" /\ Len(st.request) = 2 /\ st.topic # NoTopic
    /\ \E i, j \in DOMAIN st.log :
          /\ i < j /\ st.log[i].round = st.log[j].round
          /\ st.log[i].call = "send_json" /\ st.log[i].raised
          /\ st.log[j].call = "send_json" /\ ~st.log[j].raised
    /\ \E i, j \in DOMAIN st.log :
          /\ i < j /\ st.log[i].round = st.log[j].round
          /\ st.log[i].call = "publish" /\ st.log[i].raised
          /\ st.log[j].call = "publish" /\ ~st.log[j].raised
          /\ st.log[j].payload.execution_ids # <<>>
          /\ DOMAIN st.log[j].payload.processes # {}


\* ------------------------------------------------------ Terminal claims
\* C21: once a close() call on a Terminal has returned, the first one or a
\* second one, both descriptors are closed and the shell's process group no
\* longer exists (a signal-0 probe of it finds no process), whether the shell
\* ends on SIGTERM, ignores it, or had exited before the call.
C21_ClosedAndGroupGone ==
    (caller.op = "close" /\ caller.pc = "returned") =>
        /\ terminal.master_fd = "closed"
        /\ terminal.sentinel_read_fd = "closed"
        /\ ~ShellGroupExists

\* C22: every TerminalOutput that read_blocking returned has is_done = true
\* exactly when that call consumed at least one READY token from the
\* sentinel pipe, whatever the pipe held when it was polled: nothing, one
\* token, several, or end-of-file after the shell's exit.
C22_DoneIffTokenConsumed ==
    \A i \in DOMAIN output_queue :
        output_queue[i].error = NoError =>
            (output_queue[i].is_done <=> output_queue[i].sentinel_tokens > 0)

\* An event after which read_pty ends: one with error set, or the
\* end-of-file event whose output is b''.
FinalEvent(e) == e.error # NoError \/ e.output = <<>>

\* C23: the events in the queue carry, in queue order, exactly the bytes the
\* reader has read from the master so far; an event with error set or with
\* empty output is the last one in the queue, there is at most one such
\* event, and the reader thread has exited exactly when one is there.
C23_OrderedAndFinalEventLast ==
    reader.pc # "idle" =>
        /\ Accumulate(output_queue) = reader.bytes
        /\ \A i \in DOMAIN output_queue :
              FinalEvent(output_queue[i]) => i = Len(output_queue)
        /\ reader.pc = "exited" <=>
              (output_queue # <<>>
                  /\ FinalEvent(output_queue[Len(output_queue)]))

\* C23 witness: the reader pushed an event with output, later one with
\* error set, and has exited.
C23_ErrorEventThenExit ==
    /\ reader.pc = "exited"
    /\ Len(output_queue) >= 2
    /\ output_queue[Len(output_queue)].error # NoError
    /\ output_queue[1].output # NoOutput

\* C24: a send_signal call on an open Terminal that is past os.killpg has
\* returned without raising: it has sent the signal to the group that was
\* the PTY's foreground group when it asked (the shell's own when idle, the
\* command's while one runs), or that group had vanished by then and the
\* call did nothing.
C24_SendSignalNeverRaises ==
    (caller.op = "send_signal" /\ terminal.master_fd = "open") =>
        /\ caller.pc # "raised"
        /\ caller.pc = "returned" => (caller.sent \/ ~GroupExists(caller.pg))

\* C25: a send_bytes or send_text call on an open Terminal whose slave side
\* is still held does not raise, and when it has returned every byte of its
\* input (of the text's UTF-8 encoding) has been written to the master, once
\* and in order, whatever the input's length and however full the PTY input
\* queue was.
C25_SendWritesEveryByte ==
    (/\ caller.op \in {"send_bytes", "send_text"}
     /\ terminal.master_fd = "open"
     /\ tty.slave # {}) =>
        /\ caller.pc # "raised"
        /\ caller.pc = "returned" => caller.n = Len(caller.data)

\* C26: read_blocking never leaves with EAGAIN: when its read of the master
\* finds nothing to read it returns a TerminalOutput with output None and no
\* error, so the reader never pushes an event whose error is EAGAIN; the
\* other read errors do leave it and reach the queue as error events.
C26_EagainIsNotAnError ==
    \A i \in DOMAIN output_queue : output_queue[i].error # "EAGAIN"

\* C27: where start_terminal has returned a Terminal, the child was forked
\* and its exec of the shell did not fail; a failed fork or a failed exec
\* shows as an error raised by start_terminal, never as a Terminal.
C27_TerminalOnlyIfExecd ==
    terminal.state = "returned" =>
        /\ child.state # "none"
        /\ child.status # ExecFailed

\* C29: the output bytes of the events the reader has pushed, concatenated in
\* queue order, are the bytes read from the master so far, and the frames
\* the observer has forwarded carry, in order, exactly the output bytes of
\* the events they were made from: none dropped, doubled, moved or altered.
C29_BytesConserved ==
    reader.pc # "idle" =>
        /\ Accumulate(output_queue) = reader.bytes
        /\ Encode(Concat(forwarded.frames)) =
              Accumulate(Take(output_queue, forwarded.taken))

\* C30: whenever the Terminal's descriptors have been closed by close()
\* while the reader thread is blocked in select on them, the thread
\* eventually wakes, pushes its final event and exits.
C30_BlockedReaderExitsAfterClose ==
    (terminal.master_fd = "closed" /\ reader.pc = "blocked")
        ~> (reader.pc = "exited")

\* ------------------------------------------------------ webapp claims
\* C28: a 200 answer of GET /api/messages for a session lists exactly the
\* rows stored for that session when it was made, only those created
\* strictly after since where since was given, in the order in which they
\* were created, rows with equal created_at included; no row of another
\* session is in it.
C28_ListedInCreationOrder ==
    (reply.route = "messages" /\ reply.status = 200) =>
        LET Wanted(row) ==
                /\ row.session_id = reply.session_id
                /\ reply.since.kind = "iso" =>
                      row.created_at > reply.since.val
        IN  reply.items =
              SelectSeq(Take(messages.rows, reply.stored), Wanted)

\* ------------------------------------------------------ bridge claims
\* C31: the event loop is never waiting in an enqueue, and the events handed
\* over by the reader and not yet taken by the aggregator never exceed the
\* queue's size: with the queue full the reader is the one that waits.
C31_ReaderBlocksNotLoop ==
    /\ ~loop.blocked
    /\ Len(output_queue) - loop.got <= QueueSize

\* C32: once read_pty_into_queue has finished, the completion marker has been
\* handed over exactly once, and after every TerminalOutput event.
C32_OneMarkerLast ==
    reader.pc = "exited" =>
        /\ Len(SelectSeq(output_queue,
                         LAMBDA e : e = CompletionMarker)) = 1
        /\ output_queue[Len(output_queue)] = CompletionMarker

\* ------------------------------------------------------ registry claims
\* C33: no step leaves a topic with an empty subscriber set in the registry;
\* a publish leaves the registry as it was, whether or not the topic has
\* subscribers; and the second remove_subscription of a stream, made when
\* its subscriber is no longer registered, leaves the registry as it was.
C33_NoEmptyTopicEntry ==
    [][/\ \A t \in DOMAIN topic_subscribers' : topic_subscribers'[t] # {}
       /\ nextPub' # nextPub => topic_subscribers' = topic_subscribers
       /\ \A k \in Streams :
             (/\ stream[k].pc = "eof"
              /\ stream'[k].pc = "done"
              /\ k \notin DictGet(topic_subscribers, stream[k].topic, {}))
                => topic_subscribers' = topic_subscribers]_vars

\* C33 witness: a stream is over and the entry of its topic is gone with it,
\* another topic still has a subscriber, and a publish was made to a topic
\* that had no subscriber.
C33_LastSubscriberGone ==
    /\ \E k \in Streams :
          /\ stream[k].pc = "done"
          /\ stream[k].topic \notin DOMAIN topic_subscribers
    /\ topic_subscribers # EmptyDict
    /\ \E p \in DOMAIN pubs :
          pubs[p].registered = {} /\ pubs[p].topic \notin DOMAIN topic_subscribers

\* ------------------------------------------------------ session table claims
\* C34: a session that is in none of the WebSocket, execution and topic
\* tables, as after delete_session, and so not in the GET /sessions listing,
\* enters a table only by a step of an execute, a websocket connect or an
\* add_topic request; no step of an observer callback puts it back.
C34_DeletedStaysAbsent ==
    [][\A s \in Sessions :
          (/\ s \notin DOMAIN session_id_web_sockets
           /\ s \notin DOMAIN session_id_executions_dict
           /\ s \notin DOMAIN session_id_topics
           /\ \/ s \in DOMAIN session_id_web_sockets'
              \/ s \in DOMAIN session_id_executions_dict'
              \/ s \in DOMAIN session_id_topics')
             => (nextExec' # nextExec \/ ws' # ws \/ topicOps' # topicOps)]_vars

\* C35: the WebSocket table maps no session to an empty list and the topic
\* table maps no session to an empty set, and the sessions GET /sessions
\* lists are those with at least one execution or one registered WebSocket.
C35_NoEmptyTableEntry ==
    /\ \A s \in DOMAIN session_id_web_sockets :
          session_id_web_sockets[s] # <<>>
    /\ \A s \in DOMAIN session_id_topics : session_id_topics[s] # {}
    /\ \A s \in Range(SortedSessionIds(session_id_executions_dict,
                                        session_id_web_sockets)) :
          \/ DictGet(session_id_executions_dict, s, <<>>) # <<>>
          \/ DictGet(session_id_web_sockets, s, <<>>) # <<>>

\* ------------------------------------------------------ Terminal handle claims
\* C36: whatever a Terminal's method closed, read, wrote or signalled after
\* that Terminal's close(), it was no file and no process group of another
\* Terminal that was open then.
C36_ClosedHandleTouchesOnlyItsOwn ==
    \A e \in proc.touched : (e.closed /\ e.live) => e.of = e.by

\* ------------------------------------------------------ error response claims
\* C37: a step that answers a request with status 400 or 500 leaves the
\* WebSocket, execution, topic and reverse tables and the registry of topic
\* subscribers as they were.
C37_ErrorLeavesTables ==
    [][(/\ \/ \E page_q \in PageParams, size_q \in PageSizeParams :
                GetSessions(page_q, size_q)
           \/ \E route \in Routes : \E defect \in Defects[route] :
                Malformed(route, defect)
           \/ \E w \in Sockets, s \in Sessions : WsSnapshotFails(w, s)
        /\ reply'.status \in {400, 500})
          => /\ tables' = tables
             /\ topic_subscribers' = topic_subscribers]_vars

\* ------------------------------------------------------ read-only claims
\* C38: no step of the POST /state handler and no GET /sessions changes the
\* WebSocket, execution, topic or reverse table: no entry appears for a
\* session that had none and no WebSocket leaves its list.
C38_StateAndSessionsReadOnly ==
    [][(\/ st' # st
        \/ \E page_q \in ReadOnlyPages, size_q \in ReadOnlySizes :
              GetSessions(page_q, size_q))
          => tables' = tables]_vars

\* C38 witness: the handler has returned after a round for a session that
\* is in no table and a round in which a send to a listed WebSocket raised,
\* and that WebSocket is still listed.
C38_UnknownSessionAndFailedSend ==
    /\ st.pc = "done"
    /\ \E k \in DOMAIN st.rounds :
          /\ st.rounds[k].session \notin DOMAIN session_id_web_sockets
          /\ st.rounds[k].session \notin DOMAIN session_id_executions_dict
          /\ st.rounds[k].session \notin DOMAIN session_id_topics
    /\ \E i \in DOMAIN st.log :
          /\ st.log[i].call = "send_json" /\ st.log[i].raised
          /\ Listed(st.log[i].to)

\* ------------------------------------------------------- pagination claims
\* C39: for the tables of any reachable state and any page and page_size,
\* in a 200 response of GET /sessions has_next is true exactly when the
\* request for page + 1 with the same page_size against the same tables is
\* answered with at least one item, and the number of items is
\* min(page_size, total - (page - 1) * page_size) when that is positive.
C39_HasNextAndItemCount ==
    \A page_q \in PageParams, size_q \in PageSizeParams :
        LET this == SessionsReply(session_id_executions_dict,
                                  session_id_web_sockets, page_q, size_q)
        IN this.status = 200 =>
             LET next == SessionsReply(session_id_executions_dict,
                                       session_id_web_sockets,
                                       IntText(this.page + 1),
                                       IntText(this.page_size))
                 rest == this.total - (this.page - 1) * this.page_size
             IN /\ this.has_next <=>
                      (next.status = 200 /\ Len(next.items) >= 1)
                /\ rest > 0 =>
                      Len(this.items) = IF this.page_size < rest
                                        THEN this.page_size ELSE rest

\* C39 witness: a full first page of the sessions now known was served, and
\* it announces a next page.
C39_FullPageWithNext ==
    /\ reply.route = "sessions" /\ reply.status = 200
    /\ reply.total = Cardinality(Known)
    /\ reply.page = 1 /\ reply.has_next
    /\ Len(reply.items) = reply.page_size

\* ------------------------------------------------------- webapp topics
\* C40: after any add-topic and remove-topic requests made through the web
\* application, the server's topic set of every session of the webapp equals
\* the set the webapp has stored for it.
C40_ServerTopicsMatchWebapp ==
    \A s \in messages.sessions :
        DictGet(session_id_topics, s, {}) = StoredTopics(s)

====
